---- MODULE Spec2Model ----
(***************************************************************************)
(* Model of the LinkedIn job scraper: the single-context engine            *)
(* (tools/scrape_linkedin_jobs.py) and the multi-region engine             *)
(* (tools/scrape_linkedin_multiregion.py).                                 *)
(*                                                                         *)
(* Strings are sequences of character codes (naturals).  The codes that    *)
(* the code tests for are named in Ch; a code 100 + k stands for the       *)
(* decimal text of job number k.                                           *)
(***************************************************************************)
EXTENDS Integers, Sequences, FiniteSets, TLC

VARIABLES
    mode,        \* "single" (scrape_linkedin_jobs) or "multi" (scrape_linkedin_multiregion)
    args,        \* parsed command line: max_pages, fetch_details, target
    env,         \* the world outside: credentials, the site's result lists, drift
    pc,          \* position of the one thread of control
    status,      \* "running", "exit0", "exit1" (sys.exit(1)), "crash" (uncaught exception)
    browser,     \* "none", "open", "closed"
    loaded,      \* the document the browser page currently shows
    logged_in,   \* scrape: result of login(page)
    loc_idx,     \* main (multi): index into locations
    remaining,   \* main (multi): target - len(all_jobs) at the top of the iteration
    page_num,    \* loop variable of the pagination loop
    attempt,     \* scrape: loop variable of the retry loop
    url,         \* the search URL built for the current page
    jobs,        \* records extracted from the current page
    collected,   \* scrape_location: collected
    all_jobs,    \* scrape: all_jobs (raw); main (multi): all_jobs (unique)
    seen,        \* main: seen / seen_urls
    unique_jobs, \* main (single): unique_jobs
    exported,    \* the rows handed to save_to_excel, <<>> while it was not called
    saved,       \* save_to_excel was called
    emailed,     \* send_completion_email was called, with this job_count (-1: not called)
    faults,      \* number of failure episodes the environment has injected so far
    trace,       \* history: the navigations, extractions and context starts, in order
    offered,     \* history: the records the deduplication loops of main have read, in order
    naps,        \* history: for each navigation issued, whether a delay was slept since
    cmd,         \* app.py: the command line build_command returned
    progress,    \* app.py: the (fraction, text) parse_progress returned
    session_state, \* app.py: st.session_state of every browser session
    PID_FILE,    \* app.py: content of OUTPUT_DIR/current.pid, 0 while the file is absent
    LOG_FILE,    \* app.py: the lines of OUTPUT_DIR/current.log
    procs,       \* the scraper processes launched so far; a pid is an index
    xlsx,        \* the pids whose export file linkedin_*.xlsx is in OUTPUT_DIR
    shown        \* history: per session, what its script runs have displayed

vars == <<mode, args, env, pc, status, browser, loaded, logged_in, loc_idx, remaining,
          page_num, attempt, url, jobs, collected, all_jobs, seen, unique_jobs,
          exported, saved, emailed, faults, trace, offered, naps, cmd, progress,
          session_state, PID_FILE, LOG_FILE, procs, xlsx, shown>>

\* the state of the launcher
launcher == <<session_state, PID_FILE, LOG_FILE, procs, xlsx, shown>>

-----------------------------------------------------------------------------
(* Bounds of the model *)

\* max_pages is drawn from 0..MaxPagesArg
MaxPagesArg == 3
\* number of entries of the region list that are modelled
NumLocations == 3
\* number of failure episodes the environment may inject in a run.  One
\* episode is: the failures of one retry loop (its timeouts and a final error),
\* a challenge with whatever its re-navigation does, a failed login, a failed
\* detail navigation.
MaxFaults == 1
\* number of browser sessions that share the output directory
NumSessions == 2
\* number of scraper processes the sessions launch between them
MaxLaunches == 2

(* Program constants *)

\* page_num * 25, len(jobs) < 25
PageSize == 25
\* retries = 3
Retries == 3
\* range(5): max 5 pages per location
LocationPageCap == 5
\* len(jobs) < 20 in scrape_location
LastPageThreshold == 20

-----------------------------------------------------------------------------
(* Strings *)

Ch == [ qmark |-> 0, bar |-> 1, slash |-> 2, http |-> 3, space |-> 4,
        a |-> 10, b |-> 11, c |-> 12, d |-> 13, t |-> 14 ]

\* the value a field read yields when the locator times out (an exception)
Unreadable == << -1 >>

Min(x, y) == IF x < y THEN x ELSE y
Max(x, y) == IF x > y THEN x ELSE y

RECURSIVE LStrip(_)
LStrip(s) == IF s # <<>> /\ Head(s) = Ch.space THEN LStrip(Tail(s)) ELSE s

RECURSIVE RStrip(_)
RStrip(s) == IF s # <<>> /\ s[Len(s)] = Ch.space THEN RStrip(SubSeq(s, 1, Len(s) - 1)) ELSE s

\* str.strip()
Strip(s) == RStrip(LStrip(s))

RECURSIVE BeforeQMark(_)
\* href.split("?")[0]
BeforeQMark(s) ==
    IF s = <<>> \/ Head(s) = Ch.qmark THEN <<>> ELSE <<Head(s)>> \o BeforeQMark(Tail(s))

\* job_url.startswith("http")
StartsWithHttp(s) == s # <<>> /\ Head(s) = Ch.http

-----------------------------------------------------------------------------
(* Query strings: a character is its ASCII code *)

Ascii == [ space |-> 32, pct |-> 37, plus |-> 43, comma |-> 44, zero |-> 48,
           L |-> 76, S |-> 83, a |-> 97, e |-> 101, l |-> 108, s |-> 115 ]

\* str(n) of a non-negative integer
RECURSIVE Str(_)
Str(n) == IF n < 10 THEN <<Ascii.zero + n>> ELSE Str(n \div 10) \o <<Ascii.zero + (n % 10)>>

\* int(s) of a string of decimal digits
RECURSIVE ParseInt(_)
ParseInt(s) ==
    IF s = <<>> THEN 0
    ELSE 10 * ParseInt(SubSeq(s, 1, Len(s) - 1)) + (s[Len(s)] - Ascii.zero)

\* the characters quote_plus leaves as they are: letters, digits and _ . - ~
IsUnreserved(c) ==
    \/ c \in 48..57 \/ c \in 65..90 \/ c \in 97..122
    \/ c \in {45, 46, 95, 126}

\* one upper-case hexadecimal digit
HexDigit(n) == IF n < 10 THEN 48 + n ELSE 55 + n
HexValue(c) == IF c <= 57 THEN c - 48 ELSE c - 55

\* urllib.parse.quote_plus: space becomes +, every other reserved character %XX
RECURSIVE quote_plus(_)
quote_plus(s) ==
    IF s = <<>> THEN <<>>
    ELSE LET c == Head(s)
         IN  (IF IsUnreserved(c) THEN <<c>>
              ELSE IF c = Ascii.space THEN <<Ascii.plus>>
              ELSE <<Ascii.pct, HexDigit(c \div 16), HexDigit(c % 16)>>)
             \o quote_plus(Tail(s))

\* what the server reads back from an encoded value
RECURSIVE unquote_plus(_)
unquote_plus(s) ==
    IF s = <<>> THEN <<>>
    ELSE IF Head(s) = Ascii.pct /\ Len(s) >= 3
         THEN <<16 * HexValue(s[2]) + HexValue(s[3])>> \o unquote_plus(SubSeq(s, 4, Len(s)))
    ELSE IF Head(s) = Ascii.plus THEN <<Ascii.space>> \o unquote_plus(Tail(s))
    ELSE <<Head(s)>> \o unquote_plus(Tail(s))

\* urllib.parse.urlencode(params): the key=value pairs in the order of the
\* dict, every value passed through quote_plus
urlencode(params) ==
    [i \in 1..Len(params) |-> <<params[i][1], quote_plus(params[i][2])>>]

\* the label of location number l of the run, and the number of a label
LocationLabel(l) == <<Ascii.L, Ascii.space, Ascii.zero + l>>
LocationOf(label) == label[3] - Ascii.zero

-----------------------------------------------------------------------------
(* The site: what the browser finds behind a URL *)

\* the text of job number k
Num(k) == 100 + k

\* Job card number k of the site's catalogue, as shown to a search in location
\* loc at fetch number stamp.  Cards 1..140 are well-formed; a relative href
\* with a tracking query on odd k, an absolute one on even k.  Cards 141..150
\* are the irregular ones: no link, unreadable fields, empty containers, a
\* link shared with another card.
Card(k, loc, stamp) ==
    LET rel(n)  == <<Ch.slash, Num(n), Ch.qmark, Ch.t>>
        abs(n)  == <<Ch.http, Ch.slash, Num(n)>>
        base == [ title    |-> <<Ch.space, Ch.a, Num(k), Ch.space>>,
                  company  |-> <<Ch.c, Num(k % 7)>>,
                  location |-> <<Ch.d, Num(loc)>>,
                  posted   |-> <<Ch.t, Num(stamp)>>,
                  href     |-> IF k % 2 = 1 THEN rel(k) ELSE abs(k) ]
    IN  CASE k = 141 -> [base EXCEPT !.title = <<Ch.a, Ch.b>>, !.company = <<Ch.c>>,
                                     !.href = Unreadable]
          [] k = 142 -> [base EXCEPT !.title = <<Ch.a>>, !.company = <<Ch.b, Ch.c>>,
                                     !.href = Unreadable]
          [] k = 143 -> [base EXCEPT !.title = <<Ch.a, Ch.b>>, !.company = <<Ch.c>>,
                                     !.href = <<>>, !.location = Unreadable]
          [] k = 144 -> [base EXCEPT !.title = <<>>, !.company = <<>>]
          [] k = 145 -> [base EXCEPT !.title = Unreadable]
          [] k = 146 -> [base EXCEPT !.company = Unreadable, !.href = Unreadable,
                                     !.posted = Unreadable]
          [] k = 147 -> [base EXCEPT !.title = <<Ch.space, Ch.space>>, !.company = Unreadable]
          [] k = 148 -> [base EXCEPT !.title = <<Ch.b>>, !.href = rel(1)]
          [] OTHER   -> base

\* the documents a page can show
Blank == [kind |-> "blank", cards |-> <<>>]
LoginPage == [kind |-> "login", cards |-> <<>>]
FeedPage == [kind |-> "feed", cards |-> <<>>]
\* a challenge page whose URL contains "captcha"
CaptchaPage == [kind |-> "captcha", cards |-> <<>>]
\* a challenge page that shows the robot text under an ordinary URL
RobotPage == [kind |-> "robot", cards |-> <<>>]
DetailPage(job_url) == [kind |-> "detail", cards |-> <<>>, of |-> job_url]

\* the value the server reads for query parameter key of a built URL (<<>>
\* when absent)
Param(u, key) ==
    IF \E i \in 1..Len(u) : u[i][1] = key
    THEN unquote_plus(u[CHOOSE i \in 1..Len(u) : u[i][1] = key][2])
    ELSE <<>>

\* The search-results document behind a search URL: the slice of the
\* location's result list that starts at the URL's start parameter.  The
\* list of location l is cards lo .. lo+len-1 of the catalogue; with drift d
\* the list has moved down by d entries for each page already fetched.
ResultsPage(u, stamp) ==
    LET Slice(l, start) ==
            LET shelf == env.results[l]
                from  == Max(0, start - env.drift * (start \div PageSize))
                n     == Max(0, Min(PageSize, shelf.len - from))
            IN  [kind |-> "results",
                 cards |-> [i \in 1..n |-> Card(shelf.lo + from + i - 1, l, stamp)]]
    IN  CHOOSE doc \in { Slice(l, start) : l \in { LocationOf(Param(u, "location")) },
                                            start \in { ParseInt(Param(u, "start")) } } : TRUE

-----------------------------------------------------------------------------
(* build_search_url: the query as the ordered list of its encoded key=value pairs *)

\* mutant of IsSet: a filter counts as given whatever its value
IsSetAlways(value) == TRUE

\* if exp_levels: / if industries: / if min_salary:
IsSet(value) == value # <<>>

\* build_search_url of scrape_linkedin_jobs.py
build_search_url(keyword, location, start, exp_levels, industries, min_salary) ==
    LET params == << <<"keywords", keyword>>, <<"location", location>>, <<"f_TPR", <<>> >>,
                     <<"position", Str(1)>>, <<"pageNum", Str(0)>>, <<"start", Str(start)>> >>
        e == IF IsSet(exp_levels) THEN << <<"f_E", exp_levels>> >> ELSE <<>>
        i == IF IsSet(industries) THEN << <<"f_I", industries>> >> ELSE <<>>
        s == IF IsSet(min_salary) THEN << <<"f_SB2", min_salary>> >> ELSE <<>>
    IN  urlencode(params \o e \o i \o s)

\* build_search_url of scrape_linkedin_multiregion.py
build_search_url_multi(keyword, location, start, exp_levels, industries, min_salary) ==
    LET params == << <<"keywords", keyword>>, <<"location", location>>, <<"f_TPR", <<>> >>,
                     <<"position", Str(1)>>, <<"pageNum", Str(0)>>, <<"start", Str(start)>> >>
        e == IF IsSet(exp_levels) THEN << <<"f_E", exp_levels>> >> ELSE <<>>
        i == IF IsSet(industries) THEN << <<"f_I", industries>> >> ELSE <<>>
        s == IF IsSet(min_salary) THEN << <<"f_SB2", min_salary>> >> ELSE <<>>
    IN  urlencode(params \o e \o i \o s)

-----------------------------------------------------------------------------
(* extract_jobs_from_page *)

\* mutant of ReadText: a failed read is handed on as it is
ReadTextRaw(field) == field

\* card.locator(...).first.inner_text(timeout=2000).strip(), "" on any exception
ReadText(field) == IF field = Unreadable THEN <<>> ELSE Strip(field)

\* mutant of ReadUrl: a failed read is handed on as it is
ReadUrlRaw(href) == href

\* the Job URL of a card (scrape_linkedin_jobs.py)
ReadUrl(href) ==
    IF href = Unreadable THEN <<>>
    ELSE LET job_url == BeforeQMark(href)
         IN  IF job_url # <<>> /\ ~StartsWithHttp(job_url)
             THEN <<Ch.http>> \o job_url ELSE job_url

\* one card of the single-context engine
SingleJob(card) ==
    [ title |-> ReadText(card.title), company |-> ReadText(card.company),
      location |-> ReadText(card.location), posted |-> ReadText(card.posted),
      job_url |-> ReadUrl(card.href),
      seniority |-> <<>>, employment_type |-> <<>>, description |-> <<>> ]

\* one card of the multi-region engine; loc is the search location
MultiJob(card, loc) ==
    [ title |-> ReadText(card.title), company |-> ReadText(card.company),
      location |-> IF card.location = Unreadable THEN <<Ch.d, Num(loc)>>
                   ELSE Strip(card.location),
      posted |-> ReadText(card.posted),
      job_url |-> ReadUrl(card.href),
      region |-> <<Ch.d, Num(loc)>>,
      seniority |-> <<>>, employment_type |-> <<>> ]

\* mutant of KeepJob: a record is kept for its title alone
KeepJobTitled(job) == job.title # <<>>

\* if title or company
KeepJob(job) == job.title # <<>> \/ job.company # <<>>

\* the records appended to jobs, in card order
SelectJobs(js) == SelectSeq(js, KeepJob)

\* the results container is found only on a search-results document
HasJobList(doc) == doc.kind = "results"

\* extract_jobs_from_page(page) of scrape_linkedin_jobs.py
extract_jobs_from_page(doc) ==
    IF ~HasJobList(doc) THEN <<>>
    ELSE SelectJobs([i \in 1..Len(doc.cards) |-> SingleJob(doc.cards[i])])

\* extract_jobs_from_page(page, location) of scrape_linkedin_multiregion.py
extract_jobs_from_page_multi(doc, loc) ==
    IF ~HasJobList(doc) THEN <<>>
    ELSE SelectJobs([i \in 1..Len(doc.cards) |-> MultiJob(doc.cards[i], loc)])

-----------------------------------------------------------------------------
(* Deduplication in main *)

\* key = job["Job URL"] or job["Job Title"] + job["Company"]
SingleKey(job) == IF job.job_url # <<>> THEN job.job_url ELSE job.title \o job.company

\* key = job["Job URL"] or f"{job['Job Title']}|{job['Company']}"
MultiKey(job) ==
    IF job.job_url # <<>> THEN job.job_url ELSE job.title \o <<Ch.bar>> \o job.company

KeyOf(m, job) == IF m = "single" THEN SingleKey(job) ELSE MultiKey(job)

\* mutant of IsNew: every record is taken for new
IsNewAlways(key, seenKeys) == TRUE

\* if key not in seen
IsNew(key, seenKeys) == key \notin seenKeys

\* mutant of DedupStep: a record whose key was seen replaces the one kept for it
DedupStepKeepLast(m, job, acc) ==
    LET key == KeyOf(m, job)
    IN  IF IsNew(key, acc.seen)
        THEN [out |-> Append(acc.out, job), seen |-> acc.seen \cup {key}]
        ELSE [out |-> [i \in 1..Len(acc.out) |->
                          IF KeyOf(m, acc.out[i]) = key THEN job ELSE acc.out[i]],
              seen |-> acc.seen]

\* one iteration of "for job in jobs: key = ...; if key not in seen:
\* seen.add(key); out.append(job)" on the output and key set in acc
DedupStep(m, job, acc) ==
    LET key == KeyOf(m, job)
    IN  IF IsNew(key, acc.seen)
        THEN [out |-> Append(acc.out, job), seen |-> acc.seen \cup {key}]
        ELSE acc

RECURSIVE DedupLoop(_, _, _, _, _)
\* The iterations for js[lo] .. js[hi] in order, as the iterations of the first
\* half followed by those of the second half.  The first half's result is
\* bound as a value before the second half starts, which keeps the
\* evaluation shallow on long lists.
DedupLoop(m, js, lo, hi, acc) ==
    IF lo > hi THEN acc
    ELSE IF lo = hi THEN DedupStep(m, js[lo], acc)
    ELSE LET mid == (lo + hi) \div 2
         IN  CHOOSE r \in { DedupLoop(m, js, mid + 1, hi, first) :
                               first \in { DedupLoop(m, js, lo, mid, acc) } } : TRUE

\* the whole loop over js, starting from output out and key set seenKeys
Dedup(m, js, out, seenKeys) ==
    DedupLoop(m, js, 1, Len(js), [out |-> out, seen |-> seenKeys])

-----------------------------------------------------------------------------
(* fetch_job_details *)

\* desc[:3000]
DescriptionCap == 3000

Truncate(desc) == SubSeq(desc, 1, Min(Len(desc), DescriptionCap))

\* What the job page behind job_url shows: the description text and the
\* criteria list (label words, value); Unreadable where a read times out.
DetailContent(job_url) ==
    LET k == job_url[Len(job_url)] - 100
        sen(v) == [label |-> {"seniority", "level"}, value |-> v]
        emp(v) == [label |-> {"employment", "type"}, value |-> v]
        oth(v) == [label |-> {"industries"}, value |-> v]
    IN  CASE k % 4 = 0 -> [desc |-> <<Ch.d, Num(k)>>,
                           criteria |-> <<sen(<<Ch.a>>), emp(<<Ch.b>>)>>]
          [] k % 4 = 1 -> [desc |-> Unreadable,
                           criteria |-> <<sen(<<Ch.a>>), oth(<<Ch.c>>), sen(<<Ch.b>>)>>]
          [] k % 4 = 2 -> [desc |-> <<Ch.space, Ch.d, Ch.space>>,
                           criteria |-> <<emp(<<Ch.b>>), [label |-> {"seniority"},
                                                          value |-> Unreadable],
                                          sen(<<Ch.a>>)>>]
          [] OTHER     -> [desc |-> <<Ch.d>>, criteria |-> <<>>]

RECURSIVE ReadCriteria(_, _)
\* the loop over the criteria items; an unreadable item raises and ends the loop
ReadCriteria(job, items) ==
    IF items = <<>> THEN job
    ELSE LET item == Head(items)
         IN  IF item.value = Unreadable THEN job
             ELSE IF "seniority" \in item.label
                  THEN ReadCriteria([job EXCEPT !.seniority = Strip(item.value)], Tail(items))
             ELSE IF "employment" \in item.label
                  THEN ReadCriteria([job EXCEPT !.employment_type = Strip(item.value)],
                                    Tail(items))
             ELSE ReadCriteria(job, Tail(items))

\* mutant of fetch_job_details: the title is taken from the job page too
fetch_job_details_retitled(job) == [job EXCEPT !.title = <<Ch.d>>, !.description = <<Ch.d>>]

\* fetch_job_details(page, job) when page.goto has returned
fetch_job_details(job) ==
    LET content == DetailContent(job.job_url)
        withDesc == IF content.desc = Unreadable THEN job
                    ELSE [job EXCEPT !.description = Truncate(Strip(content.desc))]
    IN  ReadCriteria(withDesc, content.criteria)

\* The documents the page may show after a navigation that timed out: the
\* old document, or an empty one.  The code reads the page after a timeout
\* only when the last attempt of scrape's retry loop timed out; elsewhere the
\* next navigation replaces the document unread, and the model leaves it.
AfterTimeout(doc) == {doc, Blank}

\* page.goto(...): one more navigation issued, nothing slept since
Navigated(h) == Append(h, FALSE)

\* human_delay(...) or time.sleep(30): a delay slept since the last navigation
Slept(h) == IF h = <<>> THEN h ELSE [h EXCEPT ![Len(h)] = TRUE]

\* One iteration of "for i, job in enumerate(jobs): jobs[i] =
\* fetch_job_details(page, job); human_delay(1.5, 3)" on st: the records, the
\* document the page shows, the navigations issued so far, and whether an
\* exception has left the loop.  The navigation of job number failAt fails
\* with failKind ("timeout": PlaywrightTimeoutError, "error": another
\* exception).  fetch_job_details sleeps after a navigation that returned,
\* the loop after every record.
EnrichStep(i, st, failAt, failKind) ==
    LET job == st.jobs[i]
    IN  IF st.raised THEN st
        ELSE IF job.job_url = <<>> THEN [st EXCEPT !.naps = Slept(@)]
        ELSE IF i = failAt /\ failKind = "error"
             THEN [st EXCEPT !.naps = Navigated(@), !.raised = TRUE]
        ELSE IF i = failAt /\ failKind = "timeout"
             THEN [st EXCEPT !.naps = Slept(Navigated(@))]
        ELSE [st EXCEPT !.jobs[i] = fetch_job_details(job),
                        !.doc = DetailPage(job.job_url),
                        !.naps = Slept(Navigated(@))]

RECURSIVE EnrichLoop(_, _, _, _, _)
\* The iterations lo .. hi in order, as the iterations of the first half
\* followed by those of the second half
EnrichLoop(lo, hi, st, failAt, failKind) ==
    IF lo > hi THEN st
    ELSE IF lo = hi THEN EnrichStep(lo, st, failAt, failKind)
    ELSE LET mid == (lo + hi) \div 2
         IN  CHOOSE r \in { EnrichLoop(mid + 1, hi, first, failAt, failKind) :
                               first \in { EnrichLoop(lo, mid, st, failAt, failKind) } } : TRUE

\* the whole loop over js from index i on; doc is the document the page shows
\* and h the navigations issued so far
EnrichFrom(js, i, doc, h, failAt, failKind) ==
    EnrichLoop(i, Len(js), [jobs |-> js, doc |-> doc, naps |-> h, raised |-> FALSE],
               failAt, failKind)

-----------------------------------------------------------------------------
(* app.py: the sessions of the launcher before their first click *)

Sessions == 1..NumSessions

\* "is_scraping" not in st.session_state ... : the session state init; a
\* scrape_pid of 0 stands for None (both are false for `if not pid`)
NewSession == [is_scraping |-> FALSE, scrape_pid |-> 0, scrape_completed |-> FALSE]

\* nothing displayed yet, no Stop pressed, no outcome reported, no script run
\* that found the session's scraper ended
NothingShown == [view |-> "none", stopped |-> FALSE, reported |-> <<>>, late |-> 0]

\* no process launched, no PID file, an empty log, no export
InitLauncher ==
    /\ session_state = [s \in Sessions |-> NewSession]
    /\ PID_FILE = 0
    /\ LOG_FILE = <<>>
    /\ procs = <<>>
    /\ xlsx = {}
    /\ shown = [s \in Sessions |-> NothingShown]

-----------------------------------------------------------------------------
(* Inputs *)

\* the result lists a location of a single-context run can have
SingleShelves == { [lo |-> 1, len |-> 0], [lo |-> 1, len |-> 10], [lo |-> 1, len |-> 25],
                   [lo |-> 1, len |-> 60], [lo |-> 1, len |-> 130], [lo |-> 141, len |-> 10] }

\* the result lists a location of a multi-region run can have
MultiShelves == << [lo |-> 1, len |-> 0], [lo |-> 1, len |-> 20], [lo |-> 14, len |-> 22],
                   [lo |-> 141, len |-> 10], [lo |-> 1, len |-> 130] >>

\* The sites of a multi-region run: location l has result list number
\* (a + b * l) mod 5, for every a and b; the first two locations get every
\* ordered pair of result lists.
MultiSites ==
    { [l \in 1..NumLocations |-> MultiShelves[((a + b * l) % Len(MultiShelves)) + 1]] :
        a \in 0..(Len(MultiShelves) - 1), b \in 0..(Len(MultiShelves) - 1) }

\* --target
Targets == {0, 30, 130}

Event(ev, loc, page, n) == [ev |-> ev, loc |-> loc, page |-> page, n |-> n]

Log(ev, loc, page, n) == trace' = Append(trace, Event(ev, loc, page, n))

Init ==
    /\ mode \in {"single", "multi"}
    /\ args \in [ max_pages : IF mode = "single" THEN 0..MaxPagesArg ELSE {0},
                  fetch_details : IF mode = "single" THEN BOOLEAN ELSE {FALSE},
                  target : IF mode = "multi" THEN Targets ELSE {0},
                  keyword : {<<Ascii.S, Ascii.a, Ascii.l, Ascii.e, Ascii.s>>},
                  exp_levels : {<<50, Ascii.comma, 51>>}, industries : {<<>>},
                  min_salary : {<<51>>} ]
    /\ env \in [ creds : IF mode = "single" THEN BOOLEAN ELSE {FALSE},
                 results : IF mode = "single" THEN [{1} -> SingleShelves]
                           ELSE MultiSites,
                 drift : IF mode = "single" THEN {0, 5} ELSE {0} ]
    \* drift shows only on a result list of several pages
    /\ env.drift # 0 => env.results[1].len > PageSize
    \* the target beyond one location's page cap goes with the sites whose
    \* first location has the long result list
    /\ args.target > LocationPageCap * PageSize => env.results[1].len > LocationPageCap * PageSize
    /\ pc = "start"
    /\ status = "running"
    /\ browser = "none"
    /\ loaded = Blank
    /\ logged_in = FALSE
    /\ loc_idx = 1
    /\ remaining = 0
    /\ page_num = 0
    /\ attempt = 0
    /\ url = <<>>
    /\ jobs = <<>>
    /\ collected = <<>>
    /\ all_jobs = <<>>
    /\ seen = {}
    /\ unique_jobs = <<>>
    /\ exported = <<>>
    /\ saved = FALSE
    /\ emailed = -1
    /\ faults = 0
    /\ trace = <<>>
    /\ offered = <<>>
    /\ naps = <<>>
    /\ cmd = <<>>
    /\ progress = <<>>
    /\ InitLauncher

\* an exception leaves the "with sync_playwright()" block and the process:
\* the playwright driver is stopped and takes the browser with it
Raise ==
    /\ pc' = "done"
    /\ status' = "crash"
    /\ browser' = "closed"

CanFail == faults < MaxFaults

Inject == faults' = faults + 1

\* the documents a navigation to search URL u can land on, with the number of
\* failure episodes each opens
Landings(u) ==
    { [doc |-> ResultsPage(u, Len(trace) + 1), cost |-> 0] }
    \cup (IF CanFail THEN { [doc |-> CaptchaPage, cost |-> 1], [doc |-> RobotPage, cost |-> 1] }
          ELSE {})

\* the documents the re-navigation after a challenge can land on
Relandings(u) == { ResultsPage(u, Len(trace) + 1), CaptchaPage, RobotPage }

-----------------------------------------------------------------------------
(* scrape_linkedin_jobs.py: scrape and main *)

\* with sync_playwright() ...: launch the browser and open the page
scrape_launch ==
    /\ pc = "start" /\ mode = "single"
    /\ browser' = "open"
    /\ loaded' = Blank
    /\ pc' = "login"
    /\ UNCHANGED <<launcher, cmd, progress, naps, mode, args, env, offered, status, logged_in, loc_idx, remaining, page_num, attempt,
                   url, jobs, collected, all_jobs, seen, unique_jobs, exported, saved,
                   emailed, faults, trace>>

\* logged_in = login(page).  The page.goto of the login page is outside the
\* try block; the form steps are inside it.
login ==
    /\ pc = "login"
    /\ \E outcome \in {"no_credentials", "logged_in", "form_timeout", "goto_timeout"} :
        /\ (outcome = "no_credentials") = ~env.creds
        /\ outcome \in {"form_timeout", "goto_timeout"} => CanFail
        /\ faults' = IF outcome \in {"form_timeout", "goto_timeout"} THEN faults + 1 ELSE faults
        /\ Log("login", 0, 0, IF outcome = "logged_in" THEN 1 ELSE 0)
        \* page.goto(login); human_delay(1, 2); ...; if logged_in: human_delay(2, 3)
        /\ naps' = CASE outcome = "no_credentials" -> naps
                      [] outcome = "goto_timeout" -> Navigated(naps)
                      [] OTHER -> Slept(Navigated(naps))
        /\ IF outcome = "goto_timeout"
           THEN Raise /\ UNCHANGED <<loaded, logged_in>>
           ELSE /\ pc' = "page_head"
                /\ logged_in' = (outcome = "logged_in")
                /\ loaded' = CASE outcome = "no_credentials" -> loaded
                               [] outcome = "logged_in" -> FeedPage
                               [] OTHER -> LoginPage
                /\ UNCHANGED <<status, browser>>
    /\ page_num' = 0
    /\ UNCHANGED <<launcher, cmd, progress, mode, args, env, offered, loc_idx, remaining, attempt, url, jobs, collected,
                   all_jobs, seen, unique_jobs, exported, saved, emailed>>

\* mutant of Offset: the offset of the page after the one fetched
OffsetAhead(p) == (p + 1) * PageSize

\* start = page_num * 25
Offset(p) == p * PageSize

\* for page_num in range(max_pages): start = page_num * 25; url = build_search_url(...)
scrape_page_head ==
    /\ pc = "page_head"
    /\ IF page_num < args.max_pages
       THEN /\ url' = build_search_url(args.keyword, LocationLabel(1), Offset(page_num),
                                       args.exp_levels, args.industries, args.min_salary)
            /\ attempt' = 0
            /\ pc' = "goto"
       ELSE /\ pc' = "close"
            /\ UNCHANGED <<url, attempt>>
    /\ UNCHANGED <<launcher, cmd, progress, naps, mode, args, env, offered, status, browser, loaded, logged_in, loc_idx, remaining,
                   page_num, jobs, collected, all_jobs, seen, unique_jobs, exported, saved,
                   emailed, faults, trace>>

\* mutant of LastAttempt: the first timeout already ends the retry loop
LastAttemptFirst(a) == a = 0

\* mutant of LastAttempt: one more attempt than retries
LastAttemptLate(a) == a = Retries

\* if attempt == retries - 1
LastAttempt(a) == a = Retries - 1

\* where control goes after the last attempt timed out: the "continue" is in
\* the retry loop, so the loop ends and the CAPTCHA check follows
AfterLastTimeout == "captcha_check"

\* for attempt in range(retries): try: page.goto(url, ...) ... except PlaywrightTimeoutError
scrape_goto ==
    /\ pc = "goto"
    /\ \/ \E l \in Landings(url) :
            /\ loaded' = l.doc
            /\ faults' = faults + l.cost
            /\ Log("nav_ok", 1, page_num, attempt)
            \* page.goto(url, ...); human_delay(2, 4)
            /\ naps' = Slept(Navigated(naps))
            /\ pc' = "captcha_check"
            /\ UNCHANGED <<attempt, status, browser>>
       \/ /\ IF attempt = 0 THEN CanFail /\ Inject ELSE UNCHANGED faults
          /\ Log("nav_timeout", 1, page_num, attempt)
          /\ naps' = Navigated(naps)
          /\ IF LastAttempt(attempt)
             THEN /\ pc' = AfterLastTimeout
                  /\ \E doc \in AfterTimeout(loaded) : loaded' = doc
                  /\ UNCHANGED attempt
             ELSE /\ pc' = "goto"
                  /\ attempt' = attempt + 1
                  /\ UNCHANGED loaded
          /\ UNCHANGED <<status, browser>>
       \/ /\ IF attempt = 0 THEN CanFail /\ Inject ELSE UNCHANGED faults
          /\ Log("nav_error", 1, page_num, attempt)
          /\ naps' = Navigated(naps)
          /\ Raise
          /\ UNCHANGED <<loaded, attempt>>
    /\ UNCHANGED <<launcher, cmd, progress, mode, args, env, offered, logged_in, loc_idx, remaining, page_num, url, jobs,
                   collected, all_jobs, seen, unique_jobs, exported, saved, emailed>>

\* "captcha" in page.url.lower() or page.locator("text=Let us know you're not a robot").count() > 0
ChallengeDetected(doc) == doc.kind \in {"captcha", "robot"}

scrape_captcha_check ==
    /\ pc = "captcha_check"
    /\ pc' = IF ChallengeDetected(loaded) THEN "renav" ELSE "extract"
    /\ UNCHANGED <<launcher, cmd, progress, naps, mode, args, env, offered, status, browser, loaded, logged_in, loc_idx, remaining,
                   page_num, attempt, url, jobs, collected, all_jobs, seen, unique_jobs,
                   exported, saved, emailed, faults, trace>>

\* time.sleep(30); page.goto(url, ...): not inside any try block
scrape_renav ==
    /\ pc = "renav"
    /\ \/ \E doc \in Relandings(url) :
            /\ loaded' = doc
            /\ Log("renav_ok", 1, page_num, 30)
            \* time.sleep(30); page.goto(url, ...); human_delay(3, 5)
            /\ naps' = Slept(Navigated(Slept(naps)))
            /\ pc' = "extract"
            /\ UNCHANGED <<status, browser>>
       \/ /\ Log("renav_fail", 1, page_num, 30)
          /\ naps' = Navigated(Slept(naps))
          /\ Raise
          /\ UNCHANGED loaded
    /\ UNCHANGED <<launcher, cmd, progress, faults, mode, args, env, offered, logged_in, loc_idx, remaining, page_num, attempt, url,
                   jobs, collected, all_jobs, seen, unique_jobs, exported, saved, emailed>>

\* jobs = extract_jobs_from_page(page); if not jobs: break
scrape_extract ==
    /\ pc = "extract"
    /\ jobs' = extract_jobs_from_page(loaded)
    /\ Log("extract", 1, page_num, Len(jobs'))
    /\ pc' = IF jobs' = <<>> THEN "close"
             ELSE IF args.fetch_details THEN "details" ELSE "collect"
    /\ UNCHANGED <<launcher, cmd, progress, naps, mode, args, env, offered, status, browser, loaded, logged_in, loc_idx, remaining,
                   page_num, attempt, url, collected, all_jobs, seen, unique_jobs, exported,
                   saved, emailed, faults>>

\* if fetch_details: for i, job in enumerate(jobs): jobs[i] = fetch_job_details(page, job)
scrape_details ==
    /\ pc = "details"
    /\ \E failAt \in {0, 1, Len(jobs)}, failKind \in {"timeout", "error"} :
        /\ failAt = 0 => failKind = "timeout"
        /\ failAt # 0 => CanFail /\ jobs[failAt].job_url # <<>>
        /\ faults' = IF failAt # 0 THEN faults + 1 ELSE faults
        /\ \E r \in { EnrichFrom(jobs, 1, loaded, naps, failAt, failKind) } :
               /\ jobs' = r.jobs
               /\ loaded' = r.doc
               /\ naps' = r.naps
               /\ Log("details", 1, page_num, failAt)
               /\ IF r.raised THEN Raise
                  ELSE pc' = "collect" /\ UNCHANGED <<status, browser>>
    /\ UNCHANGED <<launcher, cmd, progress, mode, args, env, offered, logged_in, loc_idx, remaining, page_num, attempt, url,
                   collected, all_jobs, seen, unique_jobs, exported, saved, emailed>>

\* mutant of LastPage: the last-page test with a wrong threshold
LastPageLow(n) == n < 10

\* mutant of LastPage: a full page is taken for the last one too
LastPageInclusive(n) == n <= PageSize

\* if len(jobs) < 25: break
LastPage(n) == n < PageSize

\* all_jobs.extend(jobs); if len(jobs) < 25: break; human_delay(2, 5)
scrape_collect ==
    /\ pc = "collect"
    /\ all_jobs' = all_jobs \o jobs
    /\ IF LastPage(Len(jobs))
       THEN pc' = "close" /\ UNCHANGED <<page_num, naps>>
       ELSE pc' = "page_head" /\ page_num' = page_num + 1 /\ naps' = Slept(naps)
    /\ UNCHANGED <<launcher, cmd, progress, mode, args, env, offered, status, browser, loaded, logged_in, loc_idx, remaining,
                   attempt, url, jobs, collected, seen, unique_jobs, exported, saved,
                   emailed, faults, trace>>

\* browser.close(); return all_jobs
scrape_close ==
    /\ pc = "close"
    /\ browser' = "closed"
    /\ pc' = "main"
    /\ UNCHANGED <<launcher, cmd, progress, naps, mode, args, env, offered, status, loaded, logged_in, loc_idx, remaining, page_num,
                   attempt, url, jobs, collected, all_jobs, seen, unique_jobs, exported,
                   saved, emailed, faults, trace>>

\* mutant of NothingCollected: the empty-result exit is never taken
NothingCollectedNever(js) == FALSE

\* if not jobs
NothingCollected(js) == js = <<>>

\* main, after scrape returned: exit 1 on no jobs, else deduplicate and save
main_single ==
    /\ pc = "main"
    /\ pc' = "done"
    /\ IF NothingCollected(all_jobs)
       THEN /\ status' = "exit1"
            /\ UNCHANGED <<seen, unique_jobs, exported, saved, offered>>
       ELSE \E d \in { Dedup("single", all_jobs, <<>>, {}) } :
                /\ seen' = d.seen
                /\ unique_jobs' = d.out
                /\ exported' = d.out
                /\ saved' = TRUE
                /\ status' = "exit0"
                /\ offered' = all_jobs
    /\ UNCHANGED <<launcher, cmd, progress, naps, mode, args, env, browser, loaded, logged_in, loc_idx, remaining, page_num,
                   attempt, url, jobs, collected, all_jobs, emailed, faults, trace>>

-----------------------------------------------------------------------------
(* scrape_linkedin_multiregion.py: main and scrape_location *)

\* with sync_playwright() ...: launch the browser and open the page
main_launch ==
    /\ pc = "start" /\ mode = "multi"
    /\ browser' = "open"
    /\ loaded' = Blank
    /\ loc_idx' = 1
    /\ pc' = "loc_head"
    /\ UNCHANGED <<launcher, cmd, progress, naps, mode, args, env, offered, status, logged_in, remaining, page_num, attempt, url,
                   jobs, collected, all_jobs, seen, unique_jobs, exported, saved, emailed,
                   faults, trace>>

\* mutant of TargetReached: the run goes on when the target is met exactly
TargetReachedStrict(rem) == rem < 0

\* if remaining <= 0
TargetReached(rem) == rem <= 0

\* for loc in locations: remaining = args.target - len(all_jobs);
\* if remaining <= 0: break; raw_jobs = scrape_location(page, keyword, loc, remaining, ...)
main_loc_head ==
    /\ pc = "loc_head"
    /\ IF loc_idx > NumLocations
       THEN pc' = "m_close" /\ UNCHANGED <<remaining, collected, page_num, trace>>
       ELSE /\ remaining' = args.target - Len(all_jobs)
            /\ IF TargetReached(remaining')
               THEN /\ pc' = "m_close"
                    /\ Log("stop", loc_idx, 0, Len(all_jobs))
                    /\ UNCHANGED <<collected, page_num>>
               ELSE /\ pc' = "m_page_head"
                    /\ Log("context", loc_idx, 0, Len(all_jobs))
                    /\ collected' = <<>>
                    /\ page_num' = 0
    /\ UNCHANGED <<launcher, cmd, progress, naps, mode, args, env, offered, status, browser, loaded, logged_in, loc_idx, attempt, url,
                   jobs, all_jobs, seen, unique_jobs, exported, saved, emailed, faults>>

\* for page_num in range(5): start = page_num * 25; url = build_search_url(...)
scrape_location_page_head ==
    /\ pc = "m_page_head"
    /\ IF page_num < LocationPageCap
       THEN /\ url' = build_search_url_multi(args.keyword, LocationLabel(loc_idx), Offset(page_num),
                                       args.exp_levels, args.industries, args.min_salary)
            /\ pc' = "m_goto"
       ELSE /\ pc' = "m_return"
            /\ UNCHANGED url
    /\ UNCHANGED <<launcher, cmd, progress, naps, mode, args, env, offered, status, browser, loaded, logged_in, loc_idx, remaining,
                   page_num, attempt, jobs, collected, all_jobs, seen, unique_jobs, exported,
                   saved, emailed, faults, trace>>

\* try: page.goto(url, ...) except PlaywrightTimeoutError: break
scrape_location_goto ==
    /\ pc = "m_goto"
    /\ \/ \E l \in Landings(url) :
            /\ loaded' = l.doc
            /\ faults' = faults + l.cost
            /\ Log("nav_ok", loc_idx, page_num, 0)
            \* page.goto(url, ...); human_delay(2, 4)
            /\ naps' = Slept(Navigated(naps))
            /\ pc' = "m_captcha_check"
            /\ UNCHANGED <<status, browser>>
       \/ /\ CanFail /\ Inject
          /\ Log("nav_timeout", loc_idx, page_num, 0)
          /\ naps' = Navigated(naps)
          /\ pc' = "m_return"
          /\ UNCHANGED loaded
          /\ UNCHANGED <<status, browser>>
       \/ /\ CanFail /\ Inject
          /\ Log("nav_error", loc_idx, page_num, 0)
          /\ naps' = Navigated(naps)
          /\ Raise
          /\ UNCHANGED loaded
    /\ UNCHANGED <<launcher, cmd, progress, mode, args, env, offered, logged_in, loc_idx, remaining, page_num, attempt, url,
                   jobs, collected, all_jobs, seen, unique_jobs, exported, saved, emailed>>

\* if "captcha" in page.url.lower()
ChallengeDetectedMulti(doc) == doc.kind = "captcha"

scrape_location_captcha_check ==
    /\ pc = "m_captcha_check"
    /\ pc' = IF ChallengeDetectedMulti(loaded) THEN "m_renav" ELSE "m_extract"
    /\ UNCHANGED <<launcher, cmd, progress, naps, mode, args, env, offered, status, browser, loaded, logged_in, loc_idx, remaining,
                   page_num, attempt, url, jobs, collected, all_jobs, seen, unique_jobs,
                   exported, saved, emailed, faults, trace>>

\* time.sleep(30); try: page.goto(url, ...) except Exception: break
scrape_location_renav ==
    /\ pc = "m_renav"
    /\ \/ \E doc \in Relandings(url) :
            /\ loaded' = doc
            /\ Log("renav_ok", loc_idx, page_num, 30)
            \* time.sleep(30); page.goto(url, ...); human_delay(3, 5)
            /\ naps' = Slept(Navigated(Slept(naps)))
            /\ pc' = "m_extract"
       \/ /\ Log("renav_fail", loc_idx, page_num, 30)
          /\ naps' = Navigated(Slept(naps))
          /\ pc' = "m_return"
          /\ UNCHANGED loaded
    /\ UNCHANGED <<launcher, cmd, progress, faults, mode, args, env, offered, status, browser, logged_in, loc_idx, remaining, page_num,
                   attempt, url, jobs, collected, all_jobs, seen, unique_jobs, exported,
                   saved, emailed>>

\* if len(jobs) < 20: break
LastPageMulti(n) == n < LastPageThreshold

\* if len(collected) >= target: break
EnoughCollected(n, tgt) == n >= tgt

\* jobs = extract_jobs_from_page(page, location); if not jobs: break;
\* collected.extend(jobs); if len(jobs) < 20: break; if len(collected) >= target: break;
\* human_delay(2, 4)
scrape_location_extract ==
    /\ pc = "m_extract"
    /\ jobs' = extract_jobs_from_page_multi(loaded, loc_idx)
    /\ Log("extract", loc_idx, page_num, Len(jobs'))
    /\ IF jobs' = <<>>
       THEN pc' = "m_return" /\ UNCHANGED <<collected, page_num, naps>>
       ELSE /\ collected' = collected \o jobs'
            /\ IF LastPageMulti(Len(jobs')) \/ EnoughCollected(Len(collected'), remaining)
               THEN pc' = "m_return" /\ UNCHANGED <<page_num, naps>>
               ELSE pc' = "m_page_head" /\ page_num' = page_num + 1 /\ naps' = Slept(naps)
    /\ UNCHANGED <<launcher, cmd, progress, mode, args, env, offered, status, browser, loaded, logged_in, loc_idx, remaining,
                   attempt, url, all_jobs, seen, unique_jobs, exported, saved, emailed,
                   faults>>

\* mutant of NextLocation: every other entry of the list is passed over
NextLocationSkip(i) == i + 2

\* for loc in locations: the entry after entry i of the region list
NextLocation(i) == i + 1

\* back in main: deduplicate raw_jobs globally, then the next location
main_dedup ==
    /\ pc = "m_return"
    /\ \E d \in { Dedup("multi", collected, all_jobs, seen) } :
           /\ all_jobs' = d.out
           /\ seen' = d.seen
           /\ Log("new", loc_idx, 0, Len(d.out) - Len(all_jobs))
    /\ offered' = offered \o collected
    \* human_delay(2, 4) at the end of the iteration
    /\ naps' = Slept(naps)
    /\ loc_idx' = NextLocation(loc_idx)
    /\ pc' = "loc_head"
    /\ UNCHANGED <<launcher, cmd, progress, mode, args, env, status, browser, loaded, logged_in, remaining, page_num,
                   attempt, url, jobs, collected, unique_jobs, exported, saved, emailed,
                   faults>>

\* browser.close()
main_close ==
    /\ pc = "m_close"
    /\ browser' = "closed"
    /\ pc' = "m_main"
    /\ UNCHANGED <<launcher, cmd, progress, naps, mode, args, env, offered, status, loaded, logged_in, loc_idx, remaining, page_num,
                   attempt, url, jobs, collected, all_jobs, seen, unique_jobs, exported,
                   saved, emailed, faults, trace>>

\* mutant of Trim: the list is saved untrimmed
TrimNothing(js, tgt) == js

\* mutant of Trim: the last records are saved, not the first
TrimTail(js, tgt) == SubSeq(js, Max(1, Len(js) - tgt + 1), Len(js))

\* all_jobs[:args.target]
Trim(js, tgt) == SubSeq(js, 1, Min(Len(js), tgt))

\* if not all_jobs: sys.exit(1); final_jobs = all_jobs[:args.target];
\* save_to_excel(final_jobs, ...); send_completion_email(len(final_jobs), ...)
main_multi ==
    /\ pc = "m_main"
    /\ pc' = "done"
    /\ IF NothingCollected(all_jobs)
       THEN /\ status' = "exit1"
            /\ UNCHANGED <<exported, saved, emailed>>
       ELSE /\ exported' = Trim(all_jobs, args.target)
            /\ saved' = TRUE
            /\ emailed' = Len(exported')
            /\ status' = "exit0"
    /\ UNCHANGED <<launcher, cmd, progress, naps, mode, args, env, offered, browser, loaded, logged_in, loc_idx, remaining, page_num,
                   attempt, url, jobs, collected, all_jobs, seen, unique_jobs, faults, trace>>

-----------------------------------------------------------------------------
(* app.py: stop_scraper, as the scraper process meets it *)

\* the scraper process is running
Alive == pc \notin {"done", "stopped"}

\* the PID file is unlinked with the signal: a process is signalled once
Signalled == \E i \in 1..Len(trace) : trace[i].ev = "sigterm"

\* mutant of Terminated: the signal is ignored and the process runs on
TerminatedNever(at) == at

\* neither scraper installs a handler: SIGTERM ends the process where it is
Terminated(at) == "stopped"

\* What becomes of the browser of a process that is terminated: the with
\* block is not left and browser.close() is not reached, so the scraper
\* releases nothing; the Chromium it launched is either taken down with
\* the orphaned driver or left running.
Orphaned(b) == IF b = "open" THEN {"open", "closed"} ELSE {b}

\* os.kill(pid, signal.SIGTERM)
stop_scraper ==
    /\ Alive /\ ~Signalled
    /\ pc' = Terminated(pc)
    /\ IF pc' = "stopped"
       THEN /\ status' = "killed"
            /\ browser' \in Orphaned(browser)
       ELSE UNCHANGED <<status, browser>>
    /\ Log("sigterm", loc_idx, page_num, 0)
    /\ UNCHANGED <<launcher, cmd, progress, naps, mode, args, env, offered, loaded, logged_in, loc_idx, remaining, page_num,
                   attempt, url, jobs, collected, all_jobs, seen, unique_jobs, exported,
                   saved, emailed, faults>>

-----------------------------------------------------------------------------

Next ==
    \/ stop_scraper
    \/ scrape_launch
    \/ login
    \/ scrape_page_head
    \/ scrape_goto
    \/ scrape_captcha_check
    \/ scrape_renav
    \/ scrape_extract
    \/ scrape_details
    \/ scrape_collect
    \/ scrape_close
    \/ main_single
    \/ main_launch
    \/ main_loc_head
    \/ scrape_location_page_head
    \/ scrape_location_goto
    \/ scrape_location_captcha_check
    \/ scrape_location_renav
    \/ scrape_location_extract
    \/ main_dedup
    \/ main_close
    \/ main_multi

Spec == Init /\ [][Next]_vars

-----------------------------------------------------------------------------
(* build_search_url on its own: the inputs are drawn, the function is applied *)

\* keywords: "Sales" and "a s"
Keywords == { <<Ascii.S, Ascii.a, Ascii.l, Ascii.e, Ascii.s>>, <<Ascii.a, Ascii.space, Ascii.s>> }
\* --exp-levels: "", "2", "2,3"
ExpLevels == { <<>>, <<50>>, <<50, Ascii.comma, 51>> }
\* --industries: "", "4,6"
Industries == { <<>>, <<52, Ascii.comma, 54>> }
\* --min-salary: "", "3"
MinSalaries == { <<>>, <<51>> }
\* start: the first three page offsets
Starts == { 0, PageSize, 2 * PageSize }

InitUrl ==
    /\ mode \in {"single", "multi"}
    /\ args \in [ keyword : Keywords, location : 1..NumLocations, start : Starts,
                  exp_levels : ExpLevels, industries : Industries,
                  min_salary : MinSalaries ]
    /\ env = [creds |-> FALSE, results |-> <<>>, drift |-> 0]
    /\ pc = "build"
    /\ status = "running"
    /\ browser = "none"
    /\ loaded = Blank
    /\ logged_in = FALSE
    /\ loc_idx = 1
    /\ remaining = 0
    /\ page_num = 0
    /\ attempt = 0
    /\ url = <<>>
    /\ jobs = <<>>
    /\ collected = <<>>
    /\ all_jobs = <<>>
    /\ seen = {}
    /\ unique_jobs = <<>>
    /\ exported = <<>>
    /\ saved = FALSE
    /\ emailed = -1
    /\ faults = 0
    /\ trace = <<>>
    /\ offered = <<>>
    /\ naps = <<>>
    /\ cmd = <<>>
    /\ progress = <<>>
    /\ InitLauncher

\* url = build_search_url(keyword, location, start, exp_levels, industries, min_salary)
build_search_url_call ==
    /\ pc = "build"
    /\ url' = IF mode = "single"
              THEN build_search_url(args.keyword, LocationLabel(args.location), args.start,
                                    args.exp_levels, args.industries, args.min_salary)
              ELSE build_search_url_multi(args.keyword, LocationLabel(args.location), args.start,
                                          args.exp_levels, args.industries, args.min_salary)
    /\ pc' = "built"
    /\ UNCHANGED <<launcher, cmd, progress, naps, mode, args, env, status, browser, loaded, logged_in, loc_idx, remaining,
                   page_num, attempt, jobs, collected, all_jobs, seen, unique_jobs,
                   exported, saved, emailed, faults, trace, offered>>

NextUrl == build_search_url_call

SpecUrl == InitUrl /\ [][NextUrl]_vars

-----------------------------------------------------------------------------
(* extract_jobs_from_page on its own: a page of one or two cards is drawn, some
   reads of its first card fail, the function is applied *)

\* the elements of a card that are read
CardFields == {"title", "company", "location", "posted", "href"}

\* the catalogue numbers the cards are drawn from
CardNumbers == {1, 2, 141, 143, 144, 145, 147, 148}

\* card, with the read of every element in failed timing out
Fail(card, failed) ==
    [f \in DOMAIN card |-> IF f \in failed THEN Unreadable ELSE card[f]]

\* the cards of the page that the drawn input describes
DrawnCards(a) ==
    <<Fail(Card(a.first, a.location, 1), a.failed)>>
    \o (IF a.second = 0 THEN <<>> ELSE <<Card(a.second, a.location, 1)>>)

InitCard ==
    /\ mode \in {"single", "multi"}
    /\ args \in [ first : CardNumbers, failed : SUBSET CardFields,
                  second : {0, 2, 144}, location : 1..NumLocations ]
    /\ env = [creds |-> FALSE, results |-> <<>>, drift |-> 0]
    /\ pc = "page"
    /\ status = "running"
    /\ browser = "open"
    /\ loaded = [kind |-> "results", cards |-> DrawnCards(args)]
    /\ logged_in = FALSE
    /\ loc_idx = args.location
    /\ remaining = 0
    /\ page_num = 0
    /\ attempt = 0
    /\ url = <<>>
    /\ jobs = <<>>
    /\ collected = <<>>
    /\ all_jobs = <<>>
    /\ seen = {}
    /\ unique_jobs = <<>>
    /\ exported = <<>>
    /\ saved = FALSE
    /\ emailed = -1
    /\ faults = 0
    /\ trace = <<>>
    /\ offered = <<>>
    /\ naps = <<>>
    /\ cmd = <<>>
    /\ progress = <<>>
    /\ InitLauncher

\* jobs = extract_jobs_from_page(page) / extract_jobs_from_page(page, location)
extract_jobs_from_page_call ==
    /\ pc = "page"
    /\ jobs' = IF mode = "single" THEN extract_jobs_from_page(loaded)
               ELSE extract_jobs_from_page_multi(loaded, loc_idx)
    /\ pc' = "extracted"
    /\ UNCHANGED <<launcher, cmd, progress, naps, mode, args, env, status, browser, loaded, logged_in, loc_idx, remaining,
                   page_num, attempt, url, collected, all_jobs, seen, unique_jobs,
                   exported, saved, emailed, faults, trace, offered>>

NextCard == extract_jobs_from_page_call

SpecCard == InitCard /\ [][NextCard]_vars

-----------------------------------------------------------------------------
(* app.py: parse_progress on its own: a log is drawn, the function is applied.
   A log line is the sequence of its tokens; a number token carries its value.
   A fraction is the pair of its numerator and denominator. *)

\* number of lines of the logs that are drawn
MaxLogLines == 2

Word(t) == [t |-> t, v |-> 0]
Number(v) == [t |-> "num", v |-> v]

\* r"\[(\d+)/(\d+)\]"
DetailPattern == <<"[", "num", "/", "num", "]">>
\* r"Page\s+(\d+)/(\d+)"
PagePattern == <<"Page", "num", "/", "num">>
\* r"Total:\s*(\d+)"
TotalPattern == <<"Total:", "num">>
\* r"Collected\s+(\d+)\s+unique jobs \(from\s+(\d+)\s+total\)"
SummaryPattern == <<"Collected", "num", "unique jobs (from", "num", "total)">>

\* re.search(pattern, line): the groups of the leftmost match, <<>> for None
Search(pattern, line) ==
    LET hits == { i \in 1..(Len(line) - Len(pattern) + 1) :
                    \A j \in 1..Len(pattern) : line[i + j - 1].t = pattern[j] }
    IN  IF hits = {} THEN <<>>
        ELSE LET i == CHOOSE h \in hits : \A g \in hits : h <= g
                 nums == SelectSeq(SubSeq(line, i, i + Len(pattern) - 1),
                                   LAMBDA tk : tk.t = "num")
             IN  [k \in 1..Len(nums) |-> nums[k].v]

Frac(n, d) == [n |-> n, d |-> d]

\* min(p, q) of two fractions
FracMin(p, q) == IF p.n * q.d <= q.n * p.d THEN p ELSE q

Text(kind, a, b) == [kind |-> kind, a |-> a, b |-> b]

\* the body of "for line in log_content.splitlines()" on (pct, text) = st
ScanLine(line, total_steps, scrape_mode, st) ==
    LET m_detail == Search(DetailPattern, line)
        m  == Search(PagePattern, line)
        m2 == Search(TotalPattern, line)
        m3 == Search(SummaryPattern, line)
        s1 == IF m # <<>>
              THEN [pct |-> Frac(m[1], Max(m[2], 1)), text |-> Text("page", m[1], m[2])]
              ELSE st
        s2 == IF m2 # <<>> /\ scrape_mode # "Single Region"
              THEN [pct |-> Frac(m2[1], Max(total_steps, 1)),
                    text |-> Text("collected", m2[1], total_steps)]
              ELSE s1
        s3 == IF m3 # <<>>
              THEN [pct |-> Frac(49, 50), text |-> Text("unique", m3[1], m3[2])]
              ELSE s2
    IN  IF m_detail # <<>>
        THEN IF m_detail[2] > 0
             THEN [pct |-> Frac(m_detail[1], m_detail[2]),
                   text |-> Text("details", m_detail[1], m_detail[2])]
             ELSE st
        ELSE s3

RECURSIVE ScanLog(_, _, _, _)
ScanLog(log, total_steps, scrape_mode, st) ==
    IF log = <<>> THEN st
    ELSE ScanLog(Tail(log), total_steps, scrape_mode,
                 ScanLine(Head(log), total_steps, scrape_mode, st))

\* mutant of CapWhileRunning: the fraction is not capped while the process runs
CapNever(pct, still_running) == pct

\* if still_running: pct = min(pct, 0.95)
CapWhileRunning(pct, still_running) ==
    IF still_running THEN FracMin(pct, Frac(19, 20)) ELSE pct

\* parse_progress(log_content, total_steps, scrape_mode, still_running)
parse_progress(log_content, total_steps, scrape_mode, still_running) ==
    LET st == ScanLog(log_content, total_steps, scrape_mode,
                      [pct |-> Frac(0, 1), text |-> Text("running", 0, 0)])
        pct == CapWhileRunning(st.pct, still_running)
    IN  <<FracMin(pct, Frac(1, 1)), st.text>>

\* the log lines that are drawn: lines the scrapers print, and lines whose
\* counters are out of proportion
LogLines ==
    { <<Word("Done.")>>,
      <<Word("Page"), Number(1), Word("/"), Number(1), Word("start")>>,
      <<Word("Page"), Number(2), Word("/"), Number(5), Word("start")>>,
      <<Word("Page"), Number(3), Word("/"), Number(0)>>,
      <<Word("["), Number(3), Word("/"), Number(25), Word("]"), Word("title")>>,
      <<Word("["), Number(1), Word("/"), Number(0), Word("]"),
        Word("Page"), Number(9), Word("/"), Number(1)>>,
      <<Word("["), Number(30), Word("/"), Number(25), Word("]")>>,
      <<Word("new"), Word("Total:"), Number(4)>>,
      <<Word("new"), Word("Total:"), Number(600)>>,
      <<Word("Total"), Word("collected:"), Number(25)>>,
      <<Word("Collected"), Number(57), Word("unique jobs (from"), Number(66), Word("total)")>>,
      <<Word("Collected"), Number(30), Word("unique jobs.")>> }

Logs == UNION { [1..n -> LogLines] : n \in 0..MaxLogLines }

\* the modes of the sidebar
ScrapeModes == {"Single Region", "Multi-Region (APAC / SEA)"}

InitProgress ==
    /\ args \in [ log : Logs, total_steps : {0, 1, 5, 50}, scrape_mode : ScrapeModes,
                  still_running : BOOLEAN ]
    /\ mode = IF args.scrape_mode = "Single Region" THEN "single" ELSE "multi"
    /\ env = [creds |-> FALSE, results |-> <<>>, drift |-> 0]
    /\ pc = "render"
    /\ status = "running"
    /\ browser = "none"
    /\ loaded = Blank
    /\ logged_in = FALSE
    /\ loc_idx = 1
    /\ remaining = 0
    /\ page_num = 0
    /\ attempt = 0
    /\ url = <<>>
    /\ jobs = <<>>
    /\ collected = <<>>
    /\ all_jobs = <<>>
    /\ seen = {}
    /\ unique_jobs = <<>>
    /\ exported = <<>>
    /\ saved = FALSE
    /\ emailed = -1
    /\ faults = 0
    /\ trace = <<>>
    /\ offered = <<>>
    /\ naps = <<>>
    /\ cmd = <<>>
    /\ progress = <<>>
    /\ InitLauncher

\* pct, prog_text = parse_progress(log_content, total_steps, scrape_mode_s, still_running)
parse_progress_call ==
    /\ pc = "render"
    /\ progress' = parse_progress(args.log, args.total_steps, args.scrape_mode,
                                  args.still_running)
    /\ pc' = "rendered"
    /\ UNCHANGED <<launcher, cmd, naps, mode, args, env, status, browser, loaded, logged_in, loc_idx,
                   remaining, page_num, attempt, url, jobs, collected, all_jobs, seen,
                   unique_jobs, exported, saved, emailed, faults, trace, offered>>

NextProgress == parse_progress_call

SpecProgress == InitProgress /\ [][NextProgress]_vars

-----------------------------------------------------------------------------
(* app.py: build_command, and parser.parse_args() of the script it names.
   The sidebar selections are drawn, the command is built, the script parses it. *)

EXP_LEVEL_MAP ==
    [ s \in {"Internship", "Entry Level", "Associate", "Mid-Senior Level", "Director",
             "Executive"} |->
        CASE s = "Internship" -> "1" [] s = "Entry Level" -> "2" [] s = "Associate" -> "3"
          [] s = "Mid-Senior Level" -> "4" [] s = "Director" -> "5" [] OTHER -> "6" ]

INDUSTRY_MAP ==
    [ s \in {"Technology (Software)", "Technology (Hardware)", "Banking"} |->
        CASE s = "Technology (Software)" -> "4" [] s = "Technology (Hardware)" -> "96"
          [] OTHER -> "41" ]

SALARY_MAP ==
    [ s \in {"Any", "SGD 40K+", "SGD 80K+"} |->
        CASE s = "Any" -> "" [] s = "SGD 40K+" -> "1" [] OTHER -> "3" ]

RECURSIVE Join(_)
\* ",".join(codes)
Join(codes) ==
    IF codes = <<>> THEN ""
    ELSE IF Len(codes) = 1 THEN codes[1]
    ELSE codes[1] \o "," \o Join(Tail(codes))

\* build_command(): the script and the arguments that follow its path
build_command(sel) ==
    LET exp_codes      == Join([i \in 1..Len(sel.exp_levels_sel) |->
                                   EXP_LEVEL_MAP[sel.exp_levels_sel[i]]])
        industry_codes == Join([i \in 1..Len(sel.industries_sel) |->
                                   INDUSTRY_MAP[sel.industries_sel[i]]])
        salary_code    == SALARY_MAP[sel.salary_sel]
        head == IF sel.scrape_mode = "Single Region"
                THEN <<"--keyword", sel.keyword, "--location", sel.location,
                       "--max-pages", ToString(sel.max_pages)>>
                     \o (IF sel.fetch_details THEN <<"--fetch-details">> ELSE <<>>)
                ELSE <<"--keyword", sel.keyword, "--target", ToString(sel.target),
                       "--regions", sel.region>>
    IN  [ script |-> IF sel.scrape_mode = "Single Region" THEN "scrape_linkedin_jobs.py"
                     ELSE "scrape_linkedin_multiregion.py",
          argv |-> head
                   \o (IF exp_codes # "" THEN <<"--exp-levels", exp_codes>> ELSE <<>>)
                   \o (IF industry_codes # "" THEN <<"--industries", industry_codes>> ELSE <<>>)
                   \o (IF salary_code # "" THEN <<"--min-salary", salary_code>> ELSE <<>>)
                   \o (IF sel.headless THEN <<"--headless">> ELSE <<>>)
                   \o <<"--output-dir", sel.output_dir>>
                   \o (IF sel.signed_in THEN <<"--notify-email", sel.email>> ELSE <<>>) ]

\* parser.add_argument(..., action="store_true") of each script
Flags(script) ==
    IF script = "scrape_linkedin_jobs.py" THEN {"--headless", "--fetch-details"}
    ELSE {"--headless"}

\* parser.add_argument(...) of the options that take one value
Valued(script) ==
    IF script = "scrape_linkedin_jobs.py"
    THEN {"--keyword", "--location", "--max-pages", "--exp-levels", "--industries",
          "--min-salary"}
    ELSE {"--keyword", "--target", "--regions", "--exp-levels", "--industries",
          "--min-salary", "--output-dir"}

\* the argument strings that start with "-"
OptionLike ==
    {"--keyword", "--location", "--max-pages", "--fetch-details", "--target", "--regions",
     "--exp-levels", "--industries", "--min-salary", "--headless", "--output-dir",
     "--notify-email"}

RECURSIVE Recognized(_, _)
\* parse_args() accepts argv: every option is declared by the script (none of
\* the options is a prefix of another one), an option that takes a value is
\* followed by one, and nothing is left over
Recognized(script, argv) ==
    IF argv = <<>> THEN TRUE
    ELSE IF Head(argv) \in Flags(script) THEN Recognized(script, Tail(argv))
    ELSE IF Head(argv) \in Valued(script)
         THEN /\ Len(argv) >= 2
              /\ argv[2] \notin OptionLike
              /\ Recognized(script, SubSeq(argv, 3, Len(argv)))
    ELSE FALSE

\* the selections of the sidebar that are drawn
Selections ==
    [ scrape_mode : ScrapeModes, keyword : {"Sales"}, location : {"Singapore"},
      max_pages : {5}, region : {"apac", "sea"}, target : {50},
      exp_levels_sel : {<<>>, <<"Entry Level">>, <<"Entry Level", "Associate">>},
      industries_sel : {<<>>, <<"Banking">>}, salary_sel : {"Any", "SGD 80K+"},
      fetch_details : BOOLEAN, headless : BOOLEAN, signed_in : BOOLEAN,
      output_dir : {".tmp"}, email : {"user@example.com"} ]

InitCmd ==
    /\ args \in Selections
    /\ mode = IF args.scrape_mode = "Single Region" THEN "single" ELSE "multi"
    /\ env = [creds |-> FALSE, results |-> <<>>, drift |-> 0]
    /\ pc = "sidebar"
    /\ status = "running"
    /\ browser = "none"
    /\ loaded = Blank
    /\ logged_in = FALSE
    /\ loc_idx = 1
    /\ remaining = 0
    /\ page_num = 0
    /\ attempt = 0
    /\ url = <<>>
    /\ jobs = <<>>
    /\ collected = <<>>
    /\ all_jobs = <<>>
    /\ seen = {}
    /\ unique_jobs = <<>>
    /\ exported = <<>>
    /\ saved = FALSE
    /\ emailed = -1
    /\ faults = 0
    /\ trace = <<>>
    /\ offered = <<>>
    /\ naps = <<>>
    /\ cmd = <<>>
    /\ progress = <<>>
    /\ InitLauncher

\* cmd = build_command(); launch_scraper(cmd)
build_command_call ==
    /\ pc = "sidebar"
    /\ cmd' = build_command(args)
    /\ pc' = "launched"
    /\ UNCHANGED <<launcher, progress, naps, mode, args, env, status, browser, loaded, logged_in,
                   loc_idx, remaining, page_num, attempt, url, jobs, collected, all_jobs,
                   seen, unique_jobs, exported, saved, emailed, faults, trace, offered>>

\* args = parser.parse_args() in main of the launched script: an argument
\* that is not recognized ends the process with status 2 before anything else
parse_args ==
    /\ pc = "launched"
    /\ IF Recognized(cmd.script, cmd.argv)
       THEN pc' = "start" /\ UNCHANGED status
       ELSE pc' = "done" /\ status' = "exit2"
    /\ UNCHANGED <<launcher, cmd, progress, naps, mode, args, env, browser, loaded, logged_in,
                   loc_idx, remaining, page_num, attempt, url, jobs, collected, all_jobs,
                   seen, unique_jobs, exported, saved, emailed, faults, trace, offered>>

NextCmd ==
    \/ build_command_call
    \/ parse_args

SpecCmd == InitCmd /\ [][NextCmd]_vars

-----------------------------------------------------------------------------
(* The run under its scheduling: the scraper is one thread whose every
   navigation and wait carries a timeout, so a step that can be taken is
   taken; the stop request may or may not come *)

\* the steps of the scraper process itself
Step ==
    \/ scrape_launch \/ login \/ scrape_page_head \/ scrape_goto \/ scrape_captcha_check
    \/ scrape_renav \/ scrape_extract \/ scrape_details \/ scrape_collect \/ scrape_close
    \/ main_single
    \/ main_launch \/ main_loc_head \/ scrape_location_page_head \/ scrape_location_goto
    \/ scrape_location_captcha_check \/ scrape_location_renav \/ scrape_location_extract
    \/ main_dedup \/ main_close \/ main_multi

SpecLive == Init /\ [][Next]_vars /\ WF_vars(Step)

-----------------------------------------------------------------------------
(* app.py: the launcher.  Several browser sessions run the script against
   one output directory, so against one PID file, one log file and one set
   of export files.  A pid is never given twice.  A script run is one step,
   so the two probes of is_process_running in it give the same answer. *)

\* how a scraper process ends by itself: main returned after the export,
\* sys.exit(1) with nothing collected, the exit of argparse, an uncaught exception
Outcomes == {"exit0", "exit1", "exit2", "crash"}

\* the last line a scraper process writes to its standard output or error
LastLine(outcome) ==
    CASE outcome = "exit0" -> "Saved to: linkedin_jobs.xlsx"
      [] outcome = "exit1" -> "No jobs collected."
      [] outcome = "exit2" -> "error: unrecognized arguments"
      [] OTHER -> "Traceback (most recent call last):"

\* "Saved" in line or ".xlsx" in line, of the lines above
Marked(line) == line = "Saved to: linkedin_jobs.xlsx"

\* "Saved" in log_snap or ".xlsx" in log_snap
Completed(log) == \E i \in 1..Len(log) : Marked(log[i])

\* the files of the output directory and the process table, as a script run
\* finds them
World == [procs |-> procs, log |-> LOG_FILE, xlsx |-> xlsx, pid_file |-> PID_FILE]

\* A process ends: its last line reaches the log it was given (the file that
\* a later launch has emptied is the same file), an export is written by
\* outcome exit0 only, and the process stays in the process table until its
\* parent waits for it.
Exit(w, pid, outcome) ==
    [w EXCEPT !.procs = [@ EXCEPT ![pid].state = "exited", ![pid].outcome = outcome],
              !.log = Append(@, LastLine(outcome)),
              !.xlsx = IF outcome = "exit0" THEN @ \cup {pid} ELSE @]

\* os.kill(int(pid), 0) succeeds for every process of the process table: a
\* running one, and one that has exited and was not waited for
is_process_running(pid, ps) ==
    IF pid = 0 THEN FALSE ELSE ps[pid].state \in {"running", "exited"}

\* subprocess.Popen( ... ) first waits for the earlier children that have exited
Reaped(ps) ==
    [p \in DOMAIN ps |-> IF ps[p].state = "exited" THEN [ps[p] EXCEPT !.state = "reaped"]
                                                   ELSE ps[p]]

\* launch_scraper(cmd) in session s: open(LOG_FILE, "w") empties the log, the
\* process is started, the PID file receives its pid
launch_scraper(w, s) ==
    [w EXCEPT !.log = <<>>,
              !.procs = Append(Reaped(@), [by |-> s, state |-> "running", outcome |-> "none"]),
              !.pid_file = Len(w.procs) + 1]

\* os.kill(pid, signal.SIGTERM): a running process is terminated, a process
\* that has exited takes the signal without effect, a pid that is gone
\* raises and the exception is passed over
Killed(ps, pid) ==
    IF ps[pid].state = "running"
    THEN [ps EXCEPT ![pid].state = "exited", ![pid].outcome = "killed"]
    ELSE ps

\* stop_scraper() up to its last line: the process the PID file names is
\* signalled and the PID file is removed
stop_scraper_files(w) ==
    IF w.pid_file # 0
    THEN [w EXCEPT !.procs = Killed(@, w.pid_file), !.pid_file = 0]
    ELSE w

\* latest_output_file() is not None
latest_output_file(w) == w.xlsx # {}

\* if st.session_state.is_scraping and not is_process_running( ... ): the reconcile
Reconcile(w, ss) ==
    IF ss.is_scraping /\ ~is_process_running(ss.scrape_pid, w.procs)
    THEN [ss EXCEPT !.is_scraping = FALSE, !.scrape_completed = Completed(w.log)]
    ELSE ss

\* what the Done branch displays
DoneView(w) ==
    IF latest_output_file(w) THEN "done_download"
    ELSE IF w.log # <<>> THEN "done_error"
    ELSE "done_bare"

\* with tab_run: the files w, the session state ss after the reconcile, the
\* two buttons and whether a keyword is typed give the files and the session
\* state after the script run, and what it displayed
tab_run(w, ss, s, run_btn, stop_btn, keyword) ==
    IF run_btn /\ ~ss.is_scraping /\ keyword
    THEN [w |-> launch_scraper(w, s),
          ss |-> [ss EXCEPT !.scrape_pid = Len(w.procs) + 1, !.is_scraping = TRUE],
          view |-> "launched"]
    ELSE IF ss.is_scraping
    THEN IF stop_btn
         THEN [w |-> stop_scraper_files(w),
               ss |-> [ss EXCEPT !.is_scraping = FALSE],
               view |-> "stopped"]
         ELSE IF is_process_running(ss.scrape_pid, w.procs)
         THEN [w |-> w, ss |-> ss, view |-> "progress"]
         ELSE [w |-> w,
               ss |-> [ss EXCEPT !.is_scraping = FALSE,
                                 !.scrape_completed = Completed(w.log)],
               view |-> "progress"]
    ELSE IF ss.scrape_completed
    THEN [w |-> w, ss |-> [ss EXCEPT !.scrape_completed = FALSE], view |-> DoneView(w)]
    ELSE IF ~run_btn
    THEN [w |-> w, ss |-> ss, view |-> "idle"]
    ELSE [w |-> w, ss |-> ss, view |-> "warning"]

\* the views that report how a run ended
TerminalViews == {"done_download", "done_error", "done_bare"}

\* the history of session s after a script run that displayed view; gone: the
\* scraper the session launched last was not running when the script run began
Shown(h, view, gone) ==
    IF view = "launched"
    THEN [NothingShown EXCEPT !.view = view]
    ELSE [h EXCEPT !.view = view,
                   !.stopped = @ \/ (view = "stopped"),
                   !.reported = IF view \in TerminalViews THEN Append(@, view) ELSE @,
                   !.late = IF gone THEN Min(@ + 1, 2) ELSE @]

InitApp ==
    /\ mode = "single"
    /\ args = [max_pages |-> 0, fetch_details |-> FALSE, target |-> 0]
    /\ env = [creds |-> FALSE, results |-> <<>>, drift |-> 0]
    /\ pc = "app"
    /\ status = "running"
    /\ browser = "none"
    /\ loaded = Blank
    /\ logged_in = FALSE
    /\ loc_idx = 1
    /\ remaining = 0
    /\ page_num = 0
    /\ attempt = 0
    /\ url = <<>>
    /\ jobs = <<>>
    /\ collected = <<>>
    /\ all_jobs = <<>>
    /\ seen = {}
    /\ unique_jobs = <<>>
    /\ exported = <<>>
    /\ saved = FALSE
    /\ emailed = -1
    /\ faults = 0
    /\ trace = <<>>
    /\ offered = <<>>
    /\ naps = <<>>
    /\ cmd = <<>>
    /\ progress = <<>>
    /\ InitLauncher

\* the variables of the scraper, which the launcher leaves alone
scraper == <<mode, args, env, pc, status, browser, loaded, logged_in, loc_idx, remaining,
             page_num, attempt, url, jobs, collected, all_jobs, seen, unique_jobs,
             exported, saved, emailed, faults, trace, offered, naps, cmd, progress>>

\* One run of the script for session s: a click on Run Scraper (run_btn), a
\* click on Stop (stop_btn, when the last run displayed the button), or a
\* rerun.
script_run(s) ==
    \E run_btn \in BOOLEAN, stop_btn \in BOOLEAN, keyword \in BOOLEAN :
        /\ pc = "app"
        /\ ~(run_btn /\ stop_btn)
        /\ stop_btn => shown[s].view = "progress"
        /\ \E ss \in { Reconcile(World, session_state[s]) } :
           \E r \in { tab_run(World, ss, s, run_btn, stop_btn, keyword) } :
              /\ r.view = "launched" => Len(procs) < MaxLaunches
              /\ session_state' = [session_state EXCEPT ![s] = r.ss]
              /\ procs' = r.w.procs
              /\ LOG_FILE' = r.w.log
              /\ xlsx' = r.w.xlsx
              /\ PID_FILE' = r.w.pid_file
              /\ shown' = [shown EXCEPT ![s] =
                             Shown(@, r.view,
                                   /\ session_state[s].scrape_pid # 0
                                   /\ procs[session_state[s].scrape_pid].state # "running")]
        /\ UNCHANGED scraper

\* a scraper process ends by itself
scraper_exit(pid) ==
    /\ pc = "app"
    /\ pid \in DOMAIN procs
    /\ procs[pid].state = "running"
    /\ \E outcome \in Outcomes :
        \E w \in { Exit(World, pid, outcome) } :
            /\ procs' = w.procs
            /\ LOG_FILE' = w.log
            /\ xlsx' = w.xlsx
    /\ UNCHANGED <<session_state, PID_FILE, shown>>
    /\ UNCHANGED scraper

NextApp ==
    \/ \E s \in Sessions : script_run(s)
    \/ \E pid \in 1..MaxLaunches : scraper_exit(pid)

SpecApp == InitApp /\ [][NextApp]_vars

-----------------------------------------------------------------------------
(* Properties *)

\* the output of deduplication: unique_jobs in single-context main, all_jobs in
\* multi-region main
Accepted == IF mode = "single" THEN unique_jobs ELSE all_jobs

NavEvents == {"nav_ok", "nav_timeout", "nav_error", "renav_ok", "renav_fail"}

\* the key set of a sequence of records
KeySet(m, js) == { KeyOf(m, js[i]) : i \in 1..Len(js) }

\* the positions of in that hold the first record of their key
FirstPositions(m, in) ==
    LET keys == [i \in 1..Len(in) |-> KeyOf(m, in[i])]
    IN  { i \in 1..Len(in) : \A j \in 1..(i - 1) : keys[j] # keys[i] }

\* out is in with every record dropped whose key an earlier record has
FirstOccurrences(m, in, out) ==
    LET firsts == FirstPositions(m, in)
        order  == SelectSeq([i \in 1..Len(in) |-> i], LAMBDA i : i \in firsts)
    IN  /\ Len(out) = Len(order)
        /\ \A k \in 1..Len(order) : out[k] = in[order[k]]

\* no two records of out have the same key
NoTwoWithEqualKey(m, out) == Cardinality(KeySet(m, out)) = Len(out)

\* C1: whenever a deduplication loop of main has run (single-context: once, at
\* the end; multi-region: after each location), the accepted output holds no
\* two records with the same key, and it is the offered sequence restricted to
\* the first record of each key, in the offered order.  The key is the one
\* the engine computes.
C1_FirstOccurrenceKept ==
    pc \in {"loc_head", "done"} =>
        /\ NoTwoWithEqualKey(mode, Accepted)
        /\ FirstOccurrences(mode, offered, Accepted)

\* C1 witness: a finished multi-region run in which a record offered by a
\* later location had the key of a record of an earlier location, and only
\* the earlier one was accepted
C1_Witness ==
    /\ mode = "multi" /\ pc = "done" /\ status = "exit0"
    /\ \E i, j \in 1..Len(offered) :
        /\ i < j
        /\ offered[i].region # offered[j].region
        /\ MultiKey(offered[i]) = MultiKey(offered[j])
        /\ offered[i] \in { all_jobs[n] : n \in 1..Len(all_jobs) }
        /\ offered[j] \notin { all_jobs[n] : n \in 1..Len(all_jobs) }

\* a record of the trace
IsNav(e) == e.ev \in NavEvents

\* the last event of the trace is a navigation for a location whose pagination
\* an earlier page of fewer than limit records should have ended
NavAfterShortPage(limit) ==
    /\ trace # <<>>
    /\ IsNav(trace[Len(trace)])
    /\ \E i \in 1..(Len(trace) - 1) :
        /\ trace[i].ev = "extract"
        /\ trace[i].loc = trace[Len(trace)].loc
        /\ trace[i].n < limit

\* C2 as claimed: in both loops no navigation is issued for a context after one
\* of its pages yielded fewer than 25 records
C2_Original == ~NavAfterShortPage(PageSize)

\* C2 as amended: no navigation is issued for a context after one of its pages
\* yielded fewer than 25 records in single-context mode, fewer than 20 records
\* in multi-region mode
C2_ShortPageIsLast ==
    ~NavAfterShortPage(IF mode = "single" THEN PageSize ELSE LastPageThreshold)

\* C2 witness: a multi-region run went on to the next location after a page of
\* 1 to 19 records ended the pagination of a location
C2_Witness ==
    /\ mode = "multi"
    /\ \E i, j \in 1..Len(trace) :
        /\ i < j
        /\ trace[i].ev = "extract" /\ trace[i].n \in 1..(LastPageThreshold - 1)
        /\ IsNav(trace[j]) /\ trace[j].loc = trace[i].loc + 1

\* the program counters of scrape_location and of the deduplication after it
InContext == {"m_page_head", "m_goto", "m_captcha_check", "m_renav", "m_extract", "m_return"}

\* C3: a multi-region run is inside a context only while the accepted count is
\* below the target; every context was started with fewer accepted records
\* than the target; and once the run has stopped at the top of an iteration,
\* no context is started and no page is fetched any more.
C3_NoContextOnceTargetMet ==
    /\ pc \in InContext => Len(all_jobs) < args.target
    /\ \A i \in 1..Len(trace) : trace[i].ev = "context" => trace[i].n < args.target
    /\ \A i, j \in 1..Len(trace) :
        (i < j /\ trace[i].ev = "stop") =>
            (~IsNav(trace[j]) /\ trace[j].ev \notin {"context", "extract"})

\* C3 witness: a finished run that stopped at the top of the iteration of a
\* location of the list, with the target met, after it had run a context
C3_Witness ==
    /\ mode = "multi" /\ pc = "done" /\ args.target > 0
    /\ trace[Len(trace)].ev = "stop"
    /\ trace[Len(trace)].loc <= NumLocations
    /\ Len(all_jobs) >= args.target

\* the number of new records each finished context contributed, in order
NewCounts == SelectSeq(trace, LAMBDA e : e.ev = "new")

\* scenario C: target 30, context 1 contributed 20 new records, context 2 15
ScenarioC ==
    /\ mode = "multi" /\ args.target = 30
    /\ Len(NewCounts) >= 2
    /\ NewCounts[1].n = 20 /\ NewCounts[2].n = 15

\* C4 as claimed: in scenario C the accepted sequence has exactly 30 records
\* and never more than the target, and context 3 is never visited
C4_Original ==
    /\ mode = "multi" /\ args.target = 30 => Len(all_jobs) <= 30
    /\ ScenarioC =>
        /\ Len(all_jobs) = 30
        /\ \A i \in 1..Len(trace) : trace[i].ev = "context" => trace[i].loc < 3

\* C4 as amended: in scenario C all 15 records of context 2 are accepted, so
\* the accepted sequence has 35 records; context 3 is never visited; and the
\* sequence handed to the exporter is the first 30 accepted records
C4_ScenarioC ==
    ScenarioC =>
        /\ Len(all_jobs) = 35
        /\ \A i \in 1..Len(trace) : trace[i].ev = "context" => trace[i].loc < 3
        /\ pc = "done" =>
            /\ status = "exit0"
            /\ exported = SubSeq(all_jobs, 1, 30)

\* C4 witness: scenario C has run to its end
C4_Witness == ScenarioC /\ pc = "done" /\ Len(exported) = 30 /\ Len(all_jobs) = 35

\* the last event of the trace, when there is one
Last == trace[Len(trace)]

\* event i is a navigation timeout that leaves attempts of the 3 unused
EarlyTimeout(i) == trace[i].ev = "nav_timeout" /\ trace[i].n < Retries - 1

\* event i + 1 is the next navigation attempt for the page of event i
RetriedAt(i) ==
    /\ IsNav(trace[i + 1])
    /\ trace[i + 1].ev # "renav_ok" /\ trace[i + 1].ev # "renav_fail"
    /\ trace[i + 1].loc = trace[i].loc
    /\ trace[i + 1].page = trace[i].page
    /\ trace[i + 1].n = trace[i].n + 1

\* C5 as claimed: in both loops a navigation timeout before the third attempt
\* is followed by another navigation attempt for the same page (unless the
\* process is stopped from outside first)
C5_Original ==
    \A i \in 1..(Len(trace) - 1) :
        EarlyTimeout(i) => (RetriedAt(i) \/ trace[i + 1].ev = "sigterm")

\* the number of records all extractions of the run have returned
TotalExtracted ==
    Cardinality({ ik \in (1..Len(trace)) \X (1..PageSize) :
                    trace[ik[1]].ev = "extract" /\ ik[2] <= trace[ik[1]].n })

\* scenario D: attempts 1 and 2 of a page fetch timed out, attempt 3 succeeded
\* and landed on the results (events i, i + 1, i + 2; the extraction is i + 3)
ScenarioD(i) ==
    /\ i + 3 <= Len(trace)
    /\ trace[i].ev = "nav_timeout" /\ trace[i].n = 0
    /\ trace[i + 1].ev = "nav_timeout" /\ trace[i + 1].n = 1
    /\ trace[i + 2].ev = "nav_ok" /\ trace[i + 2].n = 2
    /\ trace[i + 3].ev = "extract" /\ trace[i + 3].page = trace[i].page

\* C5 as amended: the single-context loop makes up to 3 attempts per page: a
\* timeout of attempt 1 or 2 is followed by the next attempt for the same
\* page, and no fourth attempt is made; when attempts 1 and 2 time out and
\* attempt 3 lands on the results and nothing else fails, every extracted
\* record is collected and a run that extracted records ends with exit status
\* 0.  The multi-region loop makes one attempt: a timeout ends the
\* location's pagination.  (All of it for as long as the process is not
\* stopped from outside.)
C5_RetriesInSingleOnly ==
    /\ \A i \in 1..Len(trace) : IsNav(trace[i]) /\ trace[i].n # 30 => trace[i].n < Retries
    /\ mode = "single" =>
        /\ \A i \in 1..(Len(trace) - 1) :
                EarlyTimeout(i) => (RetriedAt(i) \/ trace[i + 1].ev = "sigterm")
        /\ (trace # <<>> /\ EarlyTimeout(Len(trace))) =>
                (pc = "goto" /\ attempt = Last.n + 1 /\ page_num = Last.page)
        /\ \A i \in 1..Len(trace) :
                (ScenarioD(i) /\ faults = 1 /\ pc = "done") =>
                    /\ Len(all_jobs) = TotalExtracted
                    /\ status = (IF TotalExtracted > 0 THEN "exit0" ELSE "exit1")
    /\ mode = "multi" =>
        \A i \in 1..(Len(trace) - 1) :
            trace[i].ev = "nav_timeout" =>
                \/ trace[i + 1].ev = "new" /\ trace[i + 1].loc = trace[i].loc
                \/ trace[i + 1].ev = "sigterm"

\* C5 witness: a finished single-context run with scenario D on its second
\* page, whose records were collected and exported
C5_Witness ==
    /\ mode = "single" /\ pc = "done" /\ status = "exit0"
    /\ \E i \in 1..Len(trace) :
        ScenarioD(i) /\ trace[i].page = 1 /\ trace[i + 3].n = PageSize
    /\ Len(exported) = 2 * PageSize

\* event i is the timeout of the last navigation attempt the loop makes for a page
Exhausted(i) ==
    /\ trace[i].ev = "nav_timeout"
    /\ mode = "single" => trace[i].n = Retries - 1

\* C6 as claimed: once every navigation attempt for a page has timed out, no
\* record is extracted for that page and added to the output, and no further
\* page of the context is navigated to
C6_Original ==
    \A i, j \in 1..Len(trace) :
        (i < j /\ Exhausted(i) /\ trace[j].loc = trace[i].loc) =>
            /\ ~IsNav(trace[j])
            /\ trace[j].ev = "extract" => trace[j].n = 0

\* the run has ended
Ended == pc = "done"

\* C7: a run that ends with an empty accepted sequence ends with a non-zero
\* status, has not called save_to_excel, has sent no completion e-mail, and
\* has handed nothing to the exporter
C7_EmptyRunFails ==
    (Ended /\ Accepted = <<>>) =>
        /\ status \in {"exit1", "crash"}
        /\ ~saved
        /\ emailed = -1
        /\ exported = <<>>

\* C7 witness: a multi-region run that fetched pages, accepted nothing and
\* left through the empty-result exit
C7_Witness ==
    /\ Ended /\ mode = "multi" /\ status = "exit1" /\ Accepted = <<>>
    /\ \E i \in 1..Len(trace) : trace[i].ev = "extract"

\* C8 as claimed: a run ends either with the export of what it collected or
\* with the empty-result exit, never with an uncaught error
C8_Original ==
    Ended => \/ status = "exit0" /\ saved
             \/ status = "exit1" /\ Accepted = <<>> /\ all_jobs = <<>>

\* the number of records each extraction returned, in order
Yields == [i \in 1..Len(SelectSeq(trace, LAMBDA e : e.ev = "extract")) |->
              SelectSeq(trace, LAMBDA e : e.ev = "extract")[i].n]

\* pagination of a single-context run is past the collection of a page
PageCompleted == mode = "single" /\ pc \in {"page_head", "close", "main", "done"}

\* C9 as claimed: after every completed page of a single-context run the
\* collected sequence is as long as the set of keys seen so far is large
C9_Original ==
    PageCompleted => Len(all_jobs) = Cardinality(KeySet("single", all_jobs))

\* scenario B: two pages of 25 records were collected, 5 keys of the second
\* page repeat keys of the first
ScenarioB ==
    /\ mode = "single"
    /\ Yields = <<PageSize, PageSize>>
    /\ Len(all_jobs) = 2 * PageSize
    /\ Cardinality(KeySet("single", SubSeq(all_jobs, 1, PageSize))) = PageSize
    /\ Cardinality(KeySet("single", SubSeq(all_jobs, PageSize + 1, 2 * PageSize))) = PageSize
    /\ Cardinality(KeySet("single", all_jobs)) = 45

\* C9 as amended: a single-context run deduplicates once, in main, after
\* pagination has ended: until then no key is recorded and nothing is
\* accepted, and each page's records are all appended to the collected
\* sequence (50 after two pages of 25); after the deduplication the output is
\* as long as the seen set is large, 45 in scenario B.
C9_DedupAfterPagination ==
    mode = "single" =>
        /\ Len(unique_jobs) = Cardinality(seen)
        /\ ~Ended => (seen = {} /\ unique_jobs = <<>>)
        /\ (PageCompleted /\ status # "crash") => Len(all_jobs) = TotalExtracted
        /\ (ScenarioB /\ Ended /\ status = "exit0") =>
                (Len(unique_jobs) = 45 /\ Cardinality(seen) = 45)

\* C9 witness: scenario B has run to its end
C9_Witness == ScenarioB /\ Ended /\ status = "exit0" /\ Len(unique_jobs) = 45

\* the pages of location 1 the run has navigated to
PagesFetched == { trace[i].page : i \in { k \in 1..Len(trace) : IsNav(trace[k]) } }

\* scenario A: the first three pages returned 25, 25 and 10 records
ScenarioA ==
    /\ mode = "single"
    /\ Len(Yields) >= 3
    /\ SubSeq(Yields, 1, 3) = <<25, 25, 10>>

\* C10: in single-context mode pagination stops after a page of zero records,
\* stops after a page of fewer than 25 records, stops when page_num + 1 is the
\* page cap, and otherwise fetches page page_num + 1 at offset 25 * (page_num
\* + 1); in scenario A exactly 3 pages are fetched, and a run without
\* duplicate keys exports 60 records.  (Each rule for the steps of a
\* process that is not stopped from outside.)
C10_DecidingRules ==
    /\ [][(mode = "single" /\ pc = "extract" /\ pc' # "stopped") =>
            IF jobs' = <<>> THEN pc' = "close" ELSE pc' \in {"details", "collect"}]_vars
    /\ [][(pc = "collect" /\ pc' # "stopped") =>
            IF Len(jobs) < 25 THEN pc' = "close" /\ page_num' = page_num
            ELSE pc' = "page_head" /\ page_num' = page_num + 1]_vars
    /\ [][(pc = "page_head" /\ pc' # "stopped") =>
            IF page_num >= args.max_pages THEN pc' = "close"
            ELSE pc' = "goto" /\ attempt' = 0 /\ ParseInt(Param(url', "start")) = 25 * page_num]_vars
    /\ [](ScenarioA =>
            /\ Len(Yields) = 3
            /\ PagesFetched = {0, 1, 2}
            /\ (Ended /\ status = "exit0" /\ NoTwoWithEqualKey("single", all_jobs)) =>
                    Len(exported) = 60)

\* C10 witness: scenario A has run to its end and 60 records were exported
C10_Witness ==
    ScenarioA /\ Ended /\ status = "exit0" /\ PagesFetched = {0, 1, 2} /\ Len(exported) = 60

\* the number of key=value pairs of query u whose key is key
CountKey(u, key) == Cardinality({ i \in 1..Len(u) : u[i][1] = key })

\* the encoded value of the first pair of query u whose key is key
RawValue(u, key) == u[CHOOSE i \in 1..Len(u) : u[i][1] = key][2]

\* every character of s is one that the encoding leaves as it is
AllUnreserved(s) == \A i \in 1..Len(s) : IsUnreserved(s[i])

\* the query u holds filter key once with value given, or not at all when
\* nothing is given
FilterAsGiven(u, key, given) ==
    IF given = <<>> THEN CountKey(u, key) = 0
    ELSE /\ CountKey(u, key) = 1
         /\ Param(u, key) = given
         /\ AllUnreserved(given) => RawValue(u, key) = given

\* C11: for each of f_E, f_I and f_SB2 the query built by either copy of
\* build_search_url holds the key exactly once when the filter value is
\* non-empty, with a value that the server reads back as the given one (and
\* that is the given text itself when it needs no percent-encoding), and does
\* not hold the key when the filter value is empty.
C11_OptionalFilters ==
    pc = "built" =>
        /\ FilterAsGiven(url, "f_E", args.exp_levels)
        /\ FilterAsGiven(url, "f_I", args.industries)
        /\ FilterAsGiven(url, "f_SB2", args.min_salary)

\* C11 witness: the multi-region copy was given min_salary "3" and no
\* industries: one f_SB2=3 pair, no f_I pair
C11_Witness ==
    /\ pc = "built" /\ mode = "multi"
    /\ args.min_salary = <<51>> /\ args.industries = <<>>
    /\ CountKey(url, "f_SB2") = 1 /\ RawValue(url, "f_SB2") = <<51>>
    /\ CountKey(url, "f_I") = 0

\* the keys of the query that are search filters
FilterKeys == {"f_TPR", "f_E", "f_I", "f_SB2"}

\* C12 as claimed: no filter key of a built query has an empty value
C12_Original ==
    \A i \in 1..Len(url) : url[i][1] \in FilterKeys => url[i][2] # <<>>

\* event e is the re-navigation that follows a detected challenge and its 30 s
\* cooldown
IsRenav(e) == e.ev \in {"renav_ok", "renav_fail"}

\* C13 as claimed: the re-navigation after a detected challenge is always
\* followed by the listing extraction of the same page, whatever the
\* re-navigation lands on or raises (unless the process is stopped from
\* outside first)
C13_Original ==
    \A i \in 1..Len(trace) :
        IsRenav(trace[i]) =>
            IF i < Len(trace)
            THEN \/ /\ trace[i + 1].ev = "extract"
                    /\ trace[i + 1].loc = trace[i].loc
                    /\ trace[i + 1].page = trace[i].page
                 \/ trace[i + 1].ev = "sigterm"
            ELSE pc \in {"extract", "m_extract"}

\* C14 as claimed: in no terminal state of a run is the browser still open
C14_Original == ~Alive => browser # "open"

\* C15: once the stop signal has been sent to the scraper process the run is
\* over: the signal is the last thing that happened (no page fetch, detail
\* fetch or context follows it), the process is terminated, and nothing is
\* exported or notified after it.
C15_StopEndsRun ==
    Signalled =>
        /\ pc = "stopped" /\ status = "killed"
        /\ Last.ev = "sigterm"
        /\ ~saved /\ emailed = -1 /\ exported = <<>>

\* C15 witness: a multi-region run stopped between two pages of its second
\* location, with records accepted and none exported
C15_Witness ==
    /\ Signalled /\ mode = "multi" /\ pc = "stopped"
    /\ Last.loc = 2 /\ Last.page = 1
    /\ all_jobs # <<>> /\ ~saved

\* the contexts started so far, in the order they were started
Started == SelectSeq(trace, LAMBDA e : e.ev = "context")

\* C16: the locations a multi-region run has started are entries 1, 2, ..., k
\* of the region list in that order, whatever earlier locations yielded and
\* however their navigation ended, and every page fetched and extracted
\* belongs to the location started last.
C16_ContextsInListOrder ==
    mode = "multi" =>
        /\ Len(Started) <= NumLocations
        /\ \A i \in 1..Len(Started) : Started[i].loc = i
        /\ (trace # <<>> /\ (IsNav(Last) \/ Last.ev = "extract")) =>
                (Last.loc = Len(Started) /\ LocationOf(Param(url, "location")) = Len(Started))

\* C16 witness: the third location was started after the navigation of the
\* first location had timed out
C16_Witness ==
    /\ mode = "multi" /\ Len(Started) = 3
    /\ \E i \in 1..Len(trace) : trace[i].ev = "nav_timeout" /\ trace[i].loc = 1

\* the fields of the data model
AllFields == {"title", "company", "location", "posted", "job_url", "region",
              "seniority", "employment_type", "description"}

\* the keys of the dict each engine appends in extract_jobs_from_page
FieldsOf(m) == IF m = "single" THEN AllFields \ {"region"} ELSE AllFields \ {"description"}

\* s is a string: a finite sequence of characters
IsString(s) == DOMAIN s = 1..Len(s) /\ \A i \in 1..Len(s) : s[i] >= 0

\* every record of js has exactly the fields fs, each a string
WellShaped(js, fs) ==
    \A i \in 1..Len(js) : DOMAIN js[i] = fs /\ \A f \in fs : IsString(js[i][f])

\* C17 as claimed: every record carries all nine fields of the data model
C17_Original ==
    /\ WellShaped(jobs, AllFields)
    /\ WellShaped(exported, AllFields)

\* C17 as amended: every record of the single-context engine carries exactly
\* title, company, location, posted, URL, seniority, employment type and
\* description; every record of the multi-region engine carries exactly title,
\* company, location, posted, URL, search region, seniority and employment
\* type; each field holds a string, the empty string when the data is absent.
\* (The records of a page are looked at when they are extracted and when they
\* are enriched; the sequences
\* they are appended to, after each deduplication and at the end of the run.)
C17_SameShapePerEngine ==
    /\ (trace # <<>> /\ Last.ev \in {"extract", "details"}) => WellShaped(jobs, FieldsOf(mode))
    /\ pc \in {"loc_head", "done"} =>
        /\ WellShaped(collected, FieldsOf(mode))
        /\ WellShaped(all_jobs, FieldsOf(mode))
        /\ WellShaped(unique_jobs, FieldsOf(mode))
        /\ WellShaped(exported, FieldsOf(mode))

\* C17 witness: a record whose link and posting date could not be read was
\* exported with both fields empty
C17_Witness ==
    /\ pc = "done" /\ saved
    /\ \E i \in 1..Len(exported) :
        /\ exported[i].job_url = <<>> /\ exported[i].posted = <<>>
        /\ exported[i].title # <<>>

\* the record of card in the engine of the run
JobOf(card) == IF mode = "single" THEN SingleJob(card) ELSE MultiJob(card, loc_idx)

\* the record of the drawn first card had none of the drawn reads failed
Reference == JobOf(Card(args.first, args.location, 1))

\* the record field that the read of a card element fills
FieldFor(f) == IF f = "href" THEN "job_url" ELSE f

\* the search location as extract_jobs_from_page of the multi-region engine is
\* given it
SearchLocation == <<Ch.d, Num(loc_idx)>>

\* the reference record with every failed field emptied
Emptied ==
    [f \in DOMAIN Reference |->
        IF f \in { FieldFor(g) : g \in args.failed } THEN <<>> ELSE Reference[f]]

\* C18 as claimed: a record that would be kept without the failures is kept
\* with them, its failed fields empty and its other fields as extracted
C18_Original ==
    (pc = "extracted" /\ KeepJob(Reference)) =>
        (jobs # <<>> /\ jobs[1] = Emptied)

\* what the engine makes of the failures: as Emptied, but a failed location
\* read of the multi-region engine yields the search location
Expected ==
    IF mode = "multi" /\ "location" \in args.failed
    THEN [Emptied EXCEPT !.location = SearchLocation]
    ELSE Emptied

\* C18 as amended: a failed read of title, company, posted or URL sets that
\* field to the empty string; a failed read of location sets it to the empty
\* string in the single-context engine and to the search location in the
\* multi-region engine; the other fields are as extracted.  The record is
\* kept unless title and company are then both empty: failures that leave
\* both empty discard the record.  The next card of the page is not affected.
C18_FieldFailureIsLocal ==
    pc = "extracted" =>
        LET rest == IF args.second # 0 /\ KeepJob(JobOf(Card(args.second, args.location, 1)))
                    THEN <<JobOf(Card(args.second, args.location, 1))>> ELSE <<>>
        IN  jobs = (IF KeepJob(Expected) THEN <<Expected>> ELSE <<>>) \o rest

\* C18 witness: the reads of posted and URL of card 1 failed and the record
\* was kept with both empty, title and company as on the card
C18_Witness ==
    /\ pc = "extracted" /\ args.first = 1 /\ args.failed = {"posted", "href"}
    /\ jobs # <<>>
    /\ jobs[1].posted = <<>> /\ jobs[1].job_url = <<>>
    /\ jobs[1].title = Reference.title /\ jobs[1].title # <<>>
    /\ jobs[1].company = Reference.company

\* the positions of the criteria list of a job page whose label holds word and
\* whose value can be read
Matching(items, word) ==
    { i \in 1..Len(items) : word \in items[i].label /\ items[i].value # Unreadable }

\* the value of the first item of the criteria list whose label holds word
FirstMatch(items, word) ==
    LET m == Matching(items, word)
    IN  Strip(items[CHOOSE i \in m : \A j \in m : i <= j].value)

\* C19 as claimed: after enrichment the seniority of a record is the value of
\* the first criteria item labelled seniority, later items not overwriting it
C19_Original ==
    (trace # <<>> /\ Last.ev = "details") =>
        \A i \in 1..Len(jobs) :
            jobs[i].seniority # <<>> =>
                jobs[i].seniority = FirstMatch(DetailContent(jobs[i].job_url).criteria, "seniority")

\* C20 as claimed: a detail navigation that fails, for whatever reason, does
\* not end the run, and leaves the record as it was
C20_Original ==
    (trace # <<>> /\ Last.ev = "details" /\ Last.n # 0) =>
        /\ pc = "collect" /\ status = "running"
        /\ jobs[Last.n].description = <<>>
        /\ jobs[Last.n].seniority = <<>>
        /\ jobs[Last.n].employment_type = <<>>

\* the positions of the trace at which login(page) was called
Logins == { i \in 1..Len(trace) : trace[i].ev = "login" }

\* C21 as claimed: authentication is attempted at most once, before any page
\* fetch, and whatever its outcome the run goes on to the pagination loop; an
\* attempt that did not succeed leaves the session unauthenticated
C21_Original ==
    /\ Cardinality(Logins) <= 1
    /\ \A i \in Logins : \A j \in 1..(i - 1) : ~IsNav(trace[j])
    /\ (trace # <<>> /\ Last.ev = "login") =>
          /\ status = "running" /\ pc = "page_head" /\ page_num = 0
          /\ Last.n = 0 => ~logged_in

\* C22 as claimed: between any two successive navigations a delay was slept;
\* no navigation but the last one issued is without a delay after it
C22_Original == \A k \in 1..(Len(naps) - 1) : naps[k]

\* parse_progress has returned
Rendered == pc = "rendered"

\* the fraction parse_progress returned
Pct == progress[1]

\* C23: the fraction parse_progress returns lies in 0..1, and is at most 0.95
\* whenever still_running is true, whatever the log, total_steps and mode
C23_ProgressCapped ==
    Rendered =>
        /\ Pct.d > 0
        /\ 0 <= Pct.n /\ Pct.n <= Pct.d
        /\ args.still_running => 20 * Pct.n <= 19 * Pct.d

\* C23 witness: a running process whose log counters give cur >= total (a last
\* line Page 1/1, or a collected total above the target) is shown at 0.95
C23_Witness ==
    /\ Rendered /\ args.still_running
    /\ args.log # <<>>
    /\ LET st == ScanLog(args.log, args.total_steps, args.scrape_mode,
                         [pct |-> Frac(0, 1), text |-> Text("running", 0, 0)])
       IN  st.pct.n >= st.pct.d /\ st.text.kind \in {"page", "collected"}
    /\ Pct = Frac(19, 20)

\* C24 as claimed: no scraper launched with a command line of build_command
\* ends in the usage error of its argument parser
C24_Original == status # "exit2"

\* the navigations of the run, in the order they were issued
Navs == SelectSeq(trace, IsNav)

\* the page cap of a context
PageCap == IF mode = "single" THEN args.max_pages ELSE LocationPageCap

\* a search URL is built and the page it names is being fetched or read
OnPage == pc \in {"goto", "captcha_check", "renav", "extract",
                  "m_goto", "m_captcha_check", "m_renav", "m_extract"}

\* C25: in one context the pages requested are 0, 1, 2, ... in order: the
\* first navigation of a context asks for page 0 and every later one for the
\* page of the navigation before it (a retry or a re-navigation) or the next
\* one; every page requested is below the page cap, so with a cap of 0 none
\* is; and the URL of page p carries start = 25 * p as the decimal digits of
\* that number.
C25_OffsetsInOrder ==
    /\ \A k \in 1..Len(Navs) :
          /\ Navs[k].page >= 0 /\ Navs[k].page < PageCap
          /\ IF k > 1 /\ Navs[k - 1].loc = Navs[k].loc
             THEN Navs[k].page \in {Navs[k - 1].page, Navs[k - 1].page + 1}
             ELSE Navs[k].page = 0
    /\ OnPage =>
          /\ CountKey(url, "start") = 1
          /\ RawValue(url, "start") = Str(PageSize * page_num)
          /\ ParseInt(Param(url, "start")) = PageSize * page_num

\* C25 witness: a context whose pagination is ended by the page cap: the last
\* page under the cap was fetched and was full, and the loop is over
C25_Witness ==
    /\ PageCap >= 3
    /\ pc \in {"close", "m_return"}
    /\ page_num = PageCap
    /\ Last.ev = "extract" /\ Last.page = PageCap - 1 /\ Last.n = PageSize
    /\ { Navs[k].page : k \in { j \in 1..Len(Navs) : Navs[j].loc = Last.loc } } = 0..(PageCap - 1)

\* the number of events of the trace with a kind in evs, of context loc and page p
CountEvents(evs, loc, p) ==
    Cardinality({ i \in 1..Len(trace) :
                    trace[i].ev \in evs /\ trace[i].loc = loc /\ trace[i].page = p })

\* the (context, page) pairs the trace mentions
Cycles == { <<trace[i].loc, trace[i].page>> : i \in { k \in 1..Len(trace) : IsNav(trace[k]) } }

\* the page cycles of the run are within their bounds: a page below the page
\* cap, at most 3 navigation attempts in the single-context engine and one in
\* the multi-region engine, at most one challenge re-navigation and one
\* extraction per page, contexts from the region list, each started once
CyclesBounded ==
    /\ \A c \in Cycles :
          /\ c[2] < PageCap
          /\ c[1] \in 1..NumLocations
          /\ CountEvents({"nav_ok", "nav_timeout", "nav_error"}, c[1], c[2])
                <= (IF mode = "single" THEN Retries ELSE 1)
          /\ CountEvents({"renav_ok", "renav_fail"}, c[1], c[2]) <= 1
          /\ CountEvents({"extract"}, c[1], c[2]) <= 1
    /\ \A l \in 1..NumLocations : CountEvents({"context"}, l, 0) <= 1

\* the run is over: exported or exited without export, crashed, or stopped
Terminal == ~Alive /\ status \in {"exit0", "exit1", "crash", "killed"}

\* C26: when every navigation and wait returns, every run reaches a terminal
\* state, and on the way performs no more page cycles, navigation attempts and
\* re-navigations than the bounds of its loops allow
C26_RunTerminates == []CyclesBounded /\ <>Terminal

\* C26 witness: a finished single-context run that used every page up to the
\* cap and all three attempts of one page
C26_Witness ==
    /\ mode = "single" /\ Ended /\ status = "exit0"
    /\ args.max_pages = 3 /\ PagesFetched = 0..2
    /\ \E i \in 1..Len(trace) : trace[i].ev = "nav_timeout" /\ trace[i].n = Retries - 1

\* the record read from each candidate container of doc, in document order
Candidates(doc) ==
    [i \in 1..Len(doc.cards) |-> JobOf(doc.cards[i])]

\* the positions of the containers with a title or a company
Named(doc) ==
    { i \in 1..Len(doc.cards) :
        \E c \in { JobOf(doc.cards[i]) } : c.title # <<>> \/ c.company # <<>> }

\* the k-th smallest element of the set of numbers S
Nth(S, k) == CHOOSE i \in S : Cardinality({ j \in S : j < i }) = k - 1

\* listing extraction has just returned
Extracted == trace # <<>> /\ Last.ev = "extract"

\* C27: listing extraction returns one record for every container with a
\* non-empty title or company and none for the others, in the order of the
\* containers, without failing; when the results container is not there it
\* returns the empty sequence
C27_KeptInDocumentOrder ==
    Extracted =>
        /\ status # "crash"
        /\ IF HasJobList(loaded)
           THEN \E named \in { Named(loaded) } :
                    /\ Len(jobs) = Cardinality(named)
                    /\ \A k \in 1..Len(jobs) : jobs[k] = JobOf(loaded.cards[Nth(named, k)])
           ELSE jobs = <<>>

\* C27 witness: a page on which a container without title and company stands
\* between two containers that have them; the two are returned, in their order
C27_Witness ==
    /\ Extracted /\ HasJobList(loaded)
    /\ \E i, j, k \in 1..Len(loaded.cards) :
          /\ i < j /\ j < k
          /\ i \in Named(loaded) /\ j \notin Named(loaded) /\ k \in Named(loaded)
          /\ \E a, b \in 1..Len(jobs) :
                a < b /\ jobs[a] = Candidates(loaded)[i] /\ jobs[b] = Candidates(loaded)[k]

\* the results container never appeared and extraction returned nothing
ExtractedFromNoList == Extracted /\ ~HasJobList(loaded) /\ jobs = <<>>

\* the fields of a record that listing extraction fills
ListingFields == {"title", "company", "location", "posted", "job_url"}

\* the step is the detail enrichment of the records of the current page
EnrichmentStep == pc = "details" /\ pc' \in {"collect", "done"}

\* the records of js that have a source URL
WithUrl(js) == { i \in 1..Len(js) : js[i].job_url # <<>> }

\* C28: detail enrichment leaves title, company, location, posted text and
\* source URL of every record as they were; a record without a source URL is
\* left unchanged altogether and no navigation is issued for it: the
\* navigations of the enrichment are at most one per record with a source
\* URL, and exactly one when no exception ended it.
C28_EnrichmentFrame ==
    [][ EnrichmentStep =>
          /\ Len(jobs') = Len(jobs)
          /\ \A i \in 1..Len(jobs) :
                /\ \A f \in ListingFields : jobs'[i][f] = jobs[i][f]
                /\ jobs[i].job_url = <<>> => jobs'[i] = jobs[i]
          /\ Len(naps') - Len(naps) <= Cardinality(WithUrl(jobs))
          /\ pc' = "collect" => Len(naps') - Len(naps) = Cardinality(WithUrl(jobs)) ]_vars

\* C28 witness: an enrichment has filled the description of a record from its
\* job page and has passed over a record of the same page that has no source URL
C28_Witness ==
    /\ trace # <<>> /\ Last.ev = "details" /\ pc = "collect"
    /\ \E i, j \in 1..Len(jobs) :
          /\ jobs[i].job_url = <<>> /\ jobs[i].description = <<>> /\ jobs[i].seniority = <<>>
          /\ jobs[j].job_url # <<>> /\ jobs[j].description # <<>>
          /\ jobs[j].title # <<>>

\* the records i and j of js have no source URL and differ in title or company
DistinctUnlinked(js, i, j) ==
    /\ js[i].job_url = <<>> /\ js[j].job_url = <<>>
    /\ <<js[i].title, js[i].company>> # <<js[j].title, js[j].company>>

\* C29 as claimed: the two engines compute the same key for a record, and
\* two records without source URL that differ in title or company have
\* different keys, so that deduplication keeps both
C29_Original ==
    Ended =>
        /\ \A i \in 1..Len(offered) : SingleKey(offered[i]) = MultiKey(offered[i])
        /\ \A i, j \in 1..Len(offered) :
              DistinctUnlinked(offered, i, j) =>
                  KeyOf(mode, offered[i]) # KeyOf(mode, offered[j])

\* a multi-region run has called save_to_excel
MultiExported == mode = "multi" /\ saved

\* C30: what a multi-region run hands to the exporter is the first
\* min(target, n) of its n accepted records, which are the first occurrences
\* of the records offered, in their order: no more than target records, no
\* two with the same key, and the notification reports their number
C30_ExportIsPrefix ==
    MultiExported =>
        /\ all_jobs # <<>>
        /\ FirstOccurrences("multi", offered, all_jobs)
        /\ Len(exported) = Min(args.target, Len(all_jobs))
        /\ \A i \in 1..Len(exported) : exported[i] = all_jobs[i]
        /\ Len(exported) <= args.target
        /\ NoTwoWithEqualKey("multi", exported)
        /\ emailed = Len(exported)

\* C30 witness: a run that accepted more records than its target and one that
\* accepted fewer; here the first: the export is cut to the target
C30_Witness ==
    /\ MultiExported
    /\ Len(all_jobs) > args.target /\ Len(exported) = args.target
    /\ emailed = args.target
    /\ Len(offered) > Len(all_jobs)

\* a run that accepted fewer records than its target exports them all
ExportedBelowTarget ==
    MultiExported /\ Len(all_jobs) < args.target /\ exported = all_jobs

\* the scraper processes that are running
Running == { p \in DOMAIN procs : procs[p].state = "running" }

\* the step is a script run of session s in which Stop was pressed
StopIn(s) == shown[s].view # "stopped" /\ shown'[s].view = "stopped"

\* C31 (as stated): of the scrapers launched by the sessions that share an
\* output directory at most one is running at any time, and a script run in
\* which a session pressed Stop leaves the session with is_scraping false,
\* the PID file absent and no scraper launched by that session running
C31_Original ==
    /\ [](Cardinality(Running) <= 1)
    /\ [][\A s \in Sessions : StopIn(s) =>
            /\ ~session_state'[s].is_scraping
            /\ PID_FILE' = 0
            /\ \A p \in DOMAIN procs' : procs'[p].by = s => procs'[p].state # "running"]_vars

\* the first half of C31 on its own
OneScraperAtATime == Cardinality(Running) <= 1

\* the second half of C31 on its own
StopEndsOwnScraper ==
    [][\A s \in Sessions : StopIn(s) =>
        \A p \in DOMAIN procs' : procs'[p].by = s => procs'[p].state # "running"]_vars

\* what holds of Stop whatever the other sessions do
StopClearsSession ==
    [][\A s \in Sessions : StopIn(s) =>
        ~session_state'[s].is_scraping /\ PID_FILE' = 0]_vars

\* the scraper that session s launched last has ended by itself, and the
\* session has not pressed Stop since it launched it
EndedUnstopped(s) ==
    /\ session_state[s].scrape_pid # 0
    /\ procs[session_state[s].scrape_pid].state # "running"
    /\ procs[session_state[s].scrape_pid].outcome \in Outcomes
    /\ ~shown[s].stopped

\* the view that tells how the scraper of session s ended
OutcomeView(s) ==
    IF procs[session_state[s].scrape_pid].outcome = "exit0" THEN "done_download"
    ELSE "done_error"

\* by its second script run after its scraper ended the session has shown
\* how the run ended
OutcomeShown(s) == shown[s].late >= 2 => shown[s].reported # <<>>

\* the outcome is shown at most once, and it is the download after an
\* export and the error message otherwise
OutcomeRight(s) ==
    /\ Len(shown[s].reported) <= 1
    /\ \A i \in 1..Len(shown[s].reported) : shown[s].reported[i] = OutcomeView(s)

\* the idle view does not come back before the outcome was shown
NotSilentlyIdle(s) == shown[s].view = "idle" => shown[s].reported # <<>>

\* C32 (as stated): when the scraper a session launched ends without Stop,
\* the session's next script runs show how it ended, once: the Done view with
\* the download after an export, an error message otherwise, and never the
\* idle view in its place
C32_Original ==
    \A s \in Sessions :
        EndedUnstopped(s) => OutcomeShown(s) /\ OutcomeRight(s) /\ NotSilentlyIdle(s)

====
